---- MODULE Spec2Model ----
(***************************************************************************)
(* State-machine model of the rideconnect client store (src/src/store.ts)  *)
(* together with the backend it talks to: the users and messages tables,   *)
(* the requests in flight and the realtime subscriptions with their        *)
(* pending notifications.                                                  *)
(*                                                                         *)
(* A nullable value of the source (T | null) is a sequence of length 0     *)
(* (null) or 1 (the value).                                                *)
(***************************************************************************)
EXTENDS Integers, Sequences, FiniteSets, TLC

\* ------------------------------------------------------------------ bounds
\* number of connect() calls made on the store
MaxConnects == 2
\* number of connect() calls where the mutations of self are followed
MaxSelfConnects == 1
\* number of connect() calls awaiting the backend at the same time
MaxConnecting == 1
\* number of other clients that create an entity row
MaxPeers == 1
\* number of message rows the backend accepts
MaxMsgs == 2
\* number of sendMessage() calls awaiting their acknowledgment
MaxSends == 1
\* number of upstream entity updates in flight
MaxWrites == 1
\* number of undelivered notifications per subscription
MaxQueue == 2
\* calls of startNavigation
MaxNavigations == 2
\* other entities in the roster a component renders
MaxRoster == 2
\* the longest duration formatted, in seconds
MaxSeconds == 7500
\* the longest distance formatted, in half metres
MaxHalfMeters == 5000
\* steps of a route handed to fetchRoute's summary
MaxSteps == 2

\* ------------------------------------------------------------- value sets
Null == << >>
Some(x) == << x >>
Val(o) == o[1]

UserIds == 1..(MaxConnects + MaxPeers)
Names == {"ann"}
PeerNames == {"bob"}
Roles == {"driver", "passenger"}
Texts == {"hi"}
ErrorMessages == {"rejected"}

\* interface Location
Locations == {[lat |-> 1, lng |-> 1], [lat |-> 2, lng |-> 2]}

SeqRange(s) == {s[i] : i \in 1..Len(s)}

RECURSIVE SelectSeqBy(_, _)
\* s.filter(keep): keep is the set of elements that pass
SelectSeqBy(s, keep) ==
  IF s = << >> THEN << >>
  ELSE IF Head(s) \in keep THEN << Head(s) >> \o SelectSeqBy(Tail(s), keep)
       ELSE SelectSeqBy(Tail(s), keep)

\* ------------------------------------------------------------ row mapping
\* function mapUser(row)
mapUser(row) ==
  [id |-> row.id,
   name |-> row.name,
   role |-> row.role,
   lat |-> row.lat,
   lng |-> row.lng,
   is_online |-> row.is_online,
   is_premium |-> row.is_premium,
   location |-> IF row.lat # Null /\ row.lng # Null
                THEN Some([lat |-> Val(row.lat), lng |-> Val(row.lng)])
                ELSE Null,
   isOnline |-> row.is_online,
   isPremium |-> row.is_premium]

\* new Date(created_at).getTime(): created_at counts seconds, the result
\* milliseconds
MsPerSecond == 1000
DateGetTime(created_at) == created_at * MsPerSecond

\* function mapMessage(row)
mapMessage(row) ==
  [id |-> row.id,
   from_user |-> row.from_user,
   to_user |-> row.to_user,
   text |-> row.text,
   created_at |-> row.created_at,
   from |-> row.from_user,
   to |-> row.to_user,
   timestamp |-> DateGetTime(row.created_at)]

\* ------------------------------------------------------------------ state
VARIABLES
  supabaseConfigured, \* lib/supabase: whether the backend URL and key are set
  currentUser,        \* store: User | null
  users,              \* store: User[]
  messages,           \* store: Message[]
  channel,            \* store: RealtimeChannel | null (a subscription handle)
  conn,               \* the connect() calls: position and locals
  sends,              \* the sendMessage() calls awaiting their response
  writes,             \* entity update requests in flight
  deletes,            \* entity delete requests in flight
  srvUsers,           \* backend table users: the set of rows
  nextUserId,         \* backend: the id the next created entity gets
  peerIds,            \* backend: the ids given to entities of other clients
  srvMessages,        \* backend table messages: rows in commit order
  subs,               \* open subscriptions: handle -> pending notifications
  mapVisible,         \* MapView: what its last render shows (null: not rendered)
  listVisible,        \* UserList: what its last render shows (null: not rendered)
  geo,                \* App: navigator.geolocation and the geolocation effect
  nav,                \* MapView: routeTo, routeData, routeLoading, routeError, showSteps
  navCalls,           \* the startNavigation() calls: position and locals
  input,              \* the arguments of a function applied on its own
  output              \* its result (null: not applied yet)

vars == << supabaseConfigured, currentUser, users, messages, channel, conn,
           sends, writes, deletes, srvUsers, nextUserId, peerIds, srvMessages,
           subs, mapVisible, listVisible, geo, nav, navCalls, input, output >>

store == << currentUser, users, messages, channel >>
calls == << conn, sends, writes, deletes >>
backend == << srvUsers, nextUserId, peerIds, srvMessages, subs >>
\* the components' renders, effects and local state, and the functions
\* applied on their own
rendered == << mapVisible, listVisible, geo >>
navigation == << nav, navCalls >>
applied == << input, output >>
view == << rendered, navigation, applied >>

\* ---------------------------------------------------------------- backend
\* the row the backend stores for insert({name, role, is_online: false,
\* is_premium: false}); lat and lng default to null
NewUserRow(id, name, role) ==
  [id |-> id, name |-> name, role |-> role, lat |-> Null, lng |-> Null,
   is_online |-> FALSE, is_premium |-> FALSE]

\* ids of message rows are opaque and differ from their timestamps
MsgId(k) == << "msg", k >>

\* the row the backend stores for insert({from_user, to_user, text}); the
\* creation timestamp is the server clock, which advances with every row
NewMessageRow(k, from, to, text) ==
  [id |-> MsgId(k), from_user |-> from, to_user |-> to, text |-> text,
   created_at |-> k]

\* update(patch).eq("id", id) on a row: the patched columns change
PatchRow(row, patch) ==
  [f \in DOMAIN row |-> IF f \in DOMAIN patch THEN patch[f] ELSE row[f]]

RowIds == {r.id : r \in srvUsers}
RowOf(id) == CHOOSE r \in srvUsers : r.id = id

RECURSIVE RowsById(_, _)
\* select("*") from users: the rows, here in id order
RowsById(rows, id) ==
  IF id > MaxConnects + MaxPeers THEN << >>
  ELSE (IF \E r \in rows : r.id = id
        THEN << CHOOSE r \in rows : r.id = id >> ELSE << >>)
       \o RowsById(rows, id + 1)

\* select("*").or(from_user.eq.id, to_user.eq.id).order("created_at"):
\* srvMessages is in created_at order
MessagesInvolving(id) ==
  SelectSeqBy(srvMessages,
              {r \in SeqRange(srvMessages) : r.from_user = id \/ r.to_user = id})

\* what a rejected or failed request answers: {data: null, error}
ErrorResponses ==
  {Some([message |-> m]) : m \in ErrorMessages} \cup {Null}

\* a postgres_changes notification
UserEvent(type, row) == [table |-> "users", eventType |-> type, row |-> row]
MessageEvent(row) == [table |-> "messages", eventType |-> "INSERT", row |-> row]

CanBroadcast == \A h \in DOMAIN subs : Len(subs[h]) < MaxQueue
\* every open subscription is notified, in commit order
Broadcast(ev) == [h \in DOMAIN subs |-> Append(subs[h], ev)]

\* ------------------------------------------------------------------- Init
IdleConn ==
  [pc |-> "idle", name |-> "", role |-> "", currentUser |-> Null,
   userData |-> Null, error |-> Null, allUsers |-> Null,
   existingMessages |-> Null, result |-> Null]

IdleSend ==
  [pc |-> "idle", from |-> 0, to |-> 0, text |-> "", data |-> Null,
   error |-> Null]

\* the backend when the client starts: some other clients have connected
InitialPeers(n, name, role) == {NewUserRow(id, name, role) : id \in 1..n}

\* MapView's useState initial values: lines 140-144
IdleNav ==
  [routeTo |-> Null, routeData |-> Null, routeLoading |-> FALSE,
   routeError |-> Null, showSteps |-> FALSE]

IdleNavCall ==
  [pc |-> "idle", from |-> Null, to |-> Null, response |-> Null,
   data |-> Null]

\* App before its first effect: what navigator.geolocation is (absent, a
\* watcher that reports positions, a watcher that reports an error), no
\* watch is registered, the effect has run for the self of the store
IdleGeo(mode) == [mode |-> mode, watch |-> "none", stale |-> FALSE]

\* no component has rendered, no navigation was started, no function applied
InitView ==
  /\ mapVisible = Null
  /\ listVisible = Null
  /\ geo = IdleGeo("working")
  /\ nav = IdleNav
  /\ navCalls = [k \in 1..MaxNavigations |-> IdleNavCall]
  /\ input = Null
  /\ output = Null

\* the store and the backend when the client starts
InitStore ==
  /\ supabaseConfigured \in BOOLEAN
  /\ currentUser = Null
  /\ users = << >>
  /\ messages = << >>
  /\ channel = Null
  /\ conn = [c \in 1..MaxConnects |-> IdleConn]
  /\ sends = [s \in 1..MaxSends |-> IdleSend]
  /\ writes = [w \in 1..MaxWrites |-> Null]
  /\ deletes = {}
  /\ \E n \in 0..MaxPeers, name \in PeerNames, role \in Roles :
       /\ srvUsers = InitialPeers(n, name, role)
       /\ nextUserId = n + 1
       /\ peerIds = 1..n
  /\ srvMessages = << >>
  /\ subs = << >>

Init == InitStore /\ InitView

\* set({currentUser: ...}) with another object than the store holds: App
\* renders again and the dependency currentUser of its effect has changed
\* (App.tsx line 47)
SelfReplaced(replaced) ==
  geo' = IF replaced THEN [geo EXCEPT !.stale = TRUE] ELSE geo

\* ---------------------------------------------------------------- connect
NotConfiguredMessage ==
  "Supabase is not configured. Please set VITE_SUPABASE_URL and VITE_SUPABASE_ANON_KEY."
FailedToConnectMessage == "Failed to connect. Please try again."

\* error?.message || "Failed to connect. Please try again."
ConnectError(error) ==
  IF error # Null /\ Val(error).message # ""
  THEN Val(error).message ELSE FailedToConnectMessage

Connecting == {c \in 1..MaxConnects : conn[c].pc \notin {"idle", "done"}}

\* connect without the check of supabaseConfigured
ConnectUnchecked(c, name, role) ==
  /\ conn[c].pc = "idle"
  /\ \A d \in 1..(c - 1) : conn[d].pc # "idle"
  /\ Cardinality(Connecting) < MaxConnecting
  /\ conn' = [conn EXCEPT ![c].pc = "creating", ![c].name = name,
                          ![c].role = role]
  /\ UNCHANGED << supabaseConfigured, view, store, sends, writes, deletes, backend >>

\* connect(name, role), up to the first await
Connect(c, name, role) ==
  /\ conn[c].pc = "idle"
  /\ \A d \in 1..(c - 1) : conn[d].pc # "idle"
  /\ Cardinality(Connecting) < MaxConnecting
  /\ IF ~supabaseConfigured
     THEN conn' = [conn EXCEPT ![c].pc = "done",
                               ![c].result = Some(NotConfiguredMessage)]
     ELSE conn' = [conn EXCEPT ![c].pc = "creating", ![c].name = name,
                               ![c].role = role]
  /\ UNCHANGED << supabaseConfigured, view, store, sends, writes, deletes, backend >>

\* the backend takes the insert into users: it stores the row and answers
\* with it, or rejects it
SrvCreateUser(c) ==
  /\ conn[c].pc = "creating"
  /\ \/ /\ CanBroadcast
        /\ LET row == NewUserRow(nextUserId, conn[c].name, conn[c].role) IN
           /\ srvUsers' = srvUsers \cup {row}
           /\ subs' = Broadcast(UserEvent("INSERT", row))
           /\ conn' = [conn EXCEPT ![c].pc = "created",
                                   ![c].userData = Some(row)]
        /\ nextUserId' = nextUserId + 1
     \/ /\ \E e \in ErrorResponses :
             conn' = [conn EXCEPT ![c].pc = "created", ![c].error = e]
        /\ UNCHANGED << srvUsers, subs, nextUserId >>
  /\ UNCHANGED << supabaseConfigured, view, store, sends, writes, deletes, peerIds,
                  srvMessages >>

\* connect after the insert answered: lines 101-112
ConnectCreated(c) ==
  /\ conn[c].pc = "created"
  /\ IF conn[c].error # Null \/ conn[c].userData = Null
     THEN /\ conn' = [conn EXCEPT ![c] =
                        [IdleConn EXCEPT !.pc = "done",
                                         !.result = Some(ConnectError(conn[c].error))]]
          /\ UNCHANGED currentUser
     ELSE LET cu == mapUser(Val(conn[c].userData)) IN
          /\ currentUser' = Some(cu)
          /\ conn' = [conn EXCEPT ![c].pc = "listUsers",
                                  ![c].currentUser = Some(cu),
                                  ![c].userData = Null]
  /\ SelfReplaced(conn[c].error = Null /\ conn[c].userData # Null)
  /\ UNCHANGED << supabaseConfigured, mapVisible, listVisible, navigation,
                  applied, users, messages, channel, sends, writes, deletes,
                  backend >>

\* the backend answers the select of all users, or fails ({data: null})
SrvListUsers(c) ==
  /\ conn[c].pc = "listUsers"
  /\ \/ conn' = [conn EXCEPT ![c].pc = "gotUsers",
                             ![c].allUsers = Some(RowsById(srvUsers, 1))]
     \/ conn' = [conn EXCEPT ![c].pc = "gotUsers", ![c].allUsers = Null]
  /\ UNCHANGED << supabaseConfigured, view, store, sends, writes, deletes, backend >>

\* allUsers.map(mapUser)
MapUsers(rows) == [i \in 1..Len(rows) |-> mapUser(rows[i])]
\* existingMessages.map(mapMessage)
MapMessages(rows) == [i \in 1..Len(rows) |-> mapMessage(rows[i])]

\* connect after the users answered: lines 114-123
ConnectGotUsers(c) ==
  /\ conn[c].pc = "gotUsers"
  /\ IF conn[c].allUsers # Null
     THEN users' = MapUsers(Val(conn[c].allUsers))
     ELSE UNCHANGED users
  /\ conn' = [conn EXCEPT ![c].pc = "listMessages", ![c].allUsers = Null]
  /\ UNCHANGED << supabaseConfigured, view, currentUser, messages, channel, sends,
                  writes, deletes, backend >>

\* the backend answers the select of the messages of the new entity
SrvListMessages(c) ==
  /\ conn[c].pc = "listMessages"
  /\ \/ conn' = [conn EXCEPT ![c].pc = "gotMessages",
                   ![c].existingMessages =
                      Some(MessagesInvolving(Val(conn[c].currentUser).id))]
     \/ conn' = [conn EXCEPT ![c].pc = "gotMessages",
                             ![c].existingMessages = Null]
  /\ UNCHANGED << supabaseConfigured, view, store, sends, writes, deletes, backend >>

\* supabase.channel("rideconnect").on(...).on(...).subscribe(): a new
\* subscription; the handle of the one opened by call c is c
NewChannel(c) == c
Subscribe(c) == [h \in DOMAIN subs \cup {NewChannel(c)} |->
                   IF h \in DOMAIN subs THEN subs[h] ELSE << >>]

\* connect that subscribes but never stores the handle
ConnectGotMessagesNoHandle(c) ==
  /\ conn[c].pc = "gotMessages"
  /\ IF conn[c].existingMessages # Null
     THEN messages' = MapMessages(Val(conn[c].existingMessages))
     ELSE UNCHANGED messages
  /\ subs' = Subscribe(c)
  /\ conn' = [conn EXCEPT ![c] = [IdleConn EXCEPT !.pc = "done",
                                                  !.result = Null]]
  /\ UNCHANGED << supabaseConfigured, view, currentUser, users, channel, sends,
                  writes, deletes, srvUsers, nextUserId, peerIds, srvMessages >>

\* connect after the messages answered: lines 125-186
ConnectGotMessages(c) ==
  /\ conn[c].pc = "gotMessages"
  /\ IF conn[c].existingMessages # Null
     THEN messages' = MapMessages(Val(conn[c].existingMessages))
     ELSE UNCHANGED messages
  /\ subs' = Subscribe(c)
  /\ channel' = Some(NewChannel(c))
  /\ conn' = [conn EXCEPT ![c] = [IdleConn EXCEPT !.pc = "done",
                                                  !.result = Null]]
  /\ UNCHANGED << supabaseConfigured, view, currentUser, users, sends, writes,
                  deletes, srvUsers, nextUserId, peerIds, srvMessages >>

\* ---------------------------------------------------------------- cleanup
\* a removeChannel that releases nothing
KeepSubscribed(h) == subs

\* supabase.removeChannel(channel)
Unsubscribe(h) == [k \in DOMAIN subs \ {h} |-> subs[k]]

\* cleanup(): lines 263-272
Cleanup ==
  /\ subs' = IF channel # Null THEN Unsubscribe(Val(channel)) ELSE subs
  /\ deletes' = IF currentUser # Null
                THEN deletes \cup {Val(currentUser).id} ELSE deletes
  /\ currentUser' = Null
  /\ users' = << >>
  /\ messages' = << >>
  /\ channel' = Null
  /\ SelfReplaced(currentUser # Null)
  /\ UNCHANGED << supabaseConfigured, mapVisible, listVisible, navigation,
                  applied, conn, sends, writes, srvUsers, nextUserId, peerIds,
                  srvMessages >>

\* the backend takes a delete of an entity row, or fails
SrvDelete(id) ==
  /\ id \in deletes
  /\ deletes' = deletes \ {id}
  /\ \/ /\ id \in RowIds
        /\ CanBroadcast
        /\ srvUsers' = srvUsers \ {RowOf(id)}
        /\ subs' = Broadcast(UserEvent("DELETE", [id |-> id]))
     \/ UNCHANGED << srvUsers, subs >>
  /\ UNCHANGED << supabaseConfigured, view, store, conn, sends, writes, nextUserId,
                  peerIds, srvMessages >>

\* ------------------------------------------------------------ sendMessage
\* messages.find((m) => m.id === id)
HasMessage(log, id) == \E i \in 1..Len(log) : log[i].id = id

\* the acknowledged row joins the log under an id made up by the client
AddWithClientId(log, data) ==
  LET msg == [mapMessage(data) EXCEPT !.id = << "local", Len(log) + 1 >>] IN
  IF ~HasMessage(log, msg.id) THEN Append(log, msg) ELSE log

\* lines 254-260: the acknowledged row joins the log unless its id is there
AddAcknowledged(log, data) ==
  LET msg == mapMessage(data) IN
  IF ~HasMessage(log, msg.id) THEN Append(log, msg) ELSE log

\* sendMessage(to, text), up to the await: lines 239-246
SendMessage(s, to, text) ==
  /\ sends[s].pc = "idle"
  /\ \A r \in 1..(s - 1) : sends[r].pc # "idle"
  /\ IF currentUser = Null
     THEN UNCHANGED sends
     ELSE sends' = [sends EXCEPT ![s] =
                      [IdleSend EXCEPT !.pc = "inserting",
                                       !.from = Val(currentUser).id,
                                       !.to = to, !.text = text]]
  /\ UNCHANGED << supabaseConfigured, view, store, conn, writes, deletes, backend >>

\* the backend takes the insert into messages: it stores the row, notifies
\* the subscriptions and answers with the row, or rejects it
SrvInsertMessage(s) ==
  /\ sends[s].pc = "inserting"
  /\ \/ /\ Len(srvMessages) < MaxMsgs
        /\ CanBroadcast
        /\ LET row == NewMessageRow(Len(srvMessages) + 1, sends[s].from,
                                    sends[s].to, sends[s].text) IN
           /\ srvMessages' = Append(srvMessages, row)
           /\ subs' = Broadcast(MessageEvent(row))
           /\ sends' = [sends EXCEPT ![s].pc = "answered",
                                     ![s].data = Some(row)]
     \/ /\ \E e \in ErrorResponses :
             sends' = [sends EXCEPT ![s].pc = "answered", ![s].error = e]
        /\ UNCHANGED << srvMessages, subs >>
  /\ UNCHANGED << supabaseConfigured, view, store, conn, writes, deletes, srvUsers,
                  nextUserId, peerIds >>

\* sendMessage after the insert answered: lines 248-260
SendAnswered(s) ==
  /\ sends[s].pc = "answered"
  /\ IF sends[s].error # Null
     THEN UNCHANGED messages
     ELSE IF sends[s].data # Null
          THEN messages' = AddAcknowledged(messages, Val(sends[s].data))
          ELSE UNCHANGED messages
  /\ sends' = [sends EXCEPT ![s] = IdleSend]
  /\ UNCHANGED << supabaseConfigured, view, currentUser, users, channel, conn,
                  writes, deletes, backend >>

\* --------------------------------------------------- optimistic mutations
\* an updateLocation that sets the alias and leaves lat and lng
WithLocationAliasOnly(cu, location) ==
  [cu EXCEPT !.location = Some(location)]

\* lines 194-201
WithLocation(cu, location) ==
  [cu EXCEPT !.lat = Some(location.lat), !.lng = Some(location.lng),
             !.location = Some(location)]
\* a toggleOnline that leaves the local self for the backend to confirm
WithOnlineDeferred(cu, isOnline) == cu

\* lines 214-216
WithOnline(cu, isOnline) ==
  [cu EXCEPT !.is_online = isOnline, !.isOnline = isOnline]
\* a togglePremium that also puts the client online
WithPremiumAndOnline(cu, isPremium) ==
  [cu EXCEPT !.is_premium = isPremium, !.isPremium = isPremium,
             !.is_online = TRUE, !.isOnline = TRUE]

\* lines 228-230
WithPremium(cu, isPremium) ==
  [cu EXCEPT !.is_premium = isPremium, !.isPremium = isPremium]

\* the columns each mutation asks the backend to update (last_seen, which no
\* part of the client reads, is left out)
LocationPatch(location) ==
  [lat |-> Some(location.lat), lng |-> Some(location.lng)]
OnlinePatch(isOnline) == [is_online |-> isOnline]
PremiumPatch(isPremium) == [is_premium |-> isPremium]

FreeWrite(w) ==
  /\ writes[w] = Null
  /\ \A v \in 1..(w - 1) : writes[v] # Null

\* updateLocation(location), up to the await
UpdateLocation(w, location) ==
  /\ FreeWrite(w)
  /\ IF currentUser = Null
     THEN UNCHANGED << currentUser, writes >>
     ELSE /\ currentUser' = Some(WithLocation(Val(currentUser), location))
          /\ writes' = [writes EXCEPT ![w] =
                          Some([id |-> Val(currentUser).id,
                                patch |-> LocationPatch(location)])]
  /\ SelfReplaced(currentUser # Null)
  /\ UNCHANGED << supabaseConfigured, mapVisible, listVisible, navigation,
                  applied, users, messages, channel, conn, sends, deletes,
                  backend >>

\* toggleOnline(isOnline), up to the await
ToggleOnline(w, isOnline) ==
  /\ FreeWrite(w)
  /\ IF currentUser = Null
     THEN UNCHANGED << currentUser, writes >>
     ELSE /\ currentUser' = Some(WithOnline(Val(currentUser), isOnline))
          /\ writes' = [writes EXCEPT ![w] =
                          Some([id |-> Val(currentUser).id,
                                patch |-> OnlinePatch(isOnline)])]
  /\ SelfReplaced(currentUser # Null)
  /\ UNCHANGED << supabaseConfigured, mapVisible, listVisible, navigation,
                  applied, users, messages, channel, conn, sends, deletes,
                  backend >>

\* togglePremium(isPremium), up to the await
TogglePremium(w, isPremium) ==
  /\ FreeWrite(w)
  /\ IF currentUser = Null
     THEN UNCHANGED << currentUser, writes >>
     ELSE /\ currentUser' = Some(WithPremium(Val(currentUser), isPremium))
          /\ writes' = [writes EXCEPT ![w] =
                          Some([id |-> Val(currentUser).id,
                                patch |-> PremiumPatch(isPremium)])]
  /\ SelfReplaced(currentUser # Null)
  /\ UNCHANGED << supabaseConfigured, mapVisible, listVisible, navigation,
                  applied, users, messages, channel, conn, sends, deletes,
                  backend >>

\* the backend commits an update of the row id (no row: nothing changes)
CommitUpdate(id, patch) ==
  IF id \in RowIds
  THEN LET row == PatchRow(RowOf(id), patch) IN
       /\ CanBroadcast
       /\ srvUsers' = (srvUsers \ {RowOf(id)}) \cup {row}
       /\ subs' = Broadcast(UserEvent("UPDATE", row))
  ELSE UNCHANGED << srvUsers, subs >>

\* the backend takes an update request and the mutation's await ends; the
\* mutation has no code after its await
SrvUpdate(w) ==
  /\ writes[w] # Null
  /\ writes' = [writes EXCEPT ![w] = Null]
  /\ CommitUpdate(Val(writes[w]).id, Val(writes[w]).patch)
  /\ UNCHANGED << supabaseConfigured, view, store, conn, sends, deletes, nextUserId,
                  peerIds, srvMessages >>

\* the update request fails (network error, rejected): the backend is
\* unchanged and the mutation's await ends
SrvUpdateFails(w) ==
  /\ writes[w] # Null
  /\ writes' = [writes EXCEPT ![w] = Null]
  /\ UNCHANGED << supabaseConfigured, view, store, conn, sends, deletes, backend >>

\* ---------------------------------------------------- geolocation effect
\* App.tsx lines 29 and 40: [37.7749, -122.4194], in whole degrees
DefaultLocation == [lat |-> 37, lng |-> 0 - 122]

\* App renders with another currentUser than its effect last ran with: the
\* cleanup of the last run (clearWatch, line 46), then the effect, lines
\* 25-44, with updateLocation(defaultLoc) up to its await when geolocation
\* is absent
GeolocationEffect(w) ==
  /\ geo.stale
  /\ IF currentUser = Null
     THEN /\ geo' = [geo EXCEPT !.stale = FALSE, !.watch = "none"]
          /\ UNCHANGED << currentUser, writes >>
     ELSE IF geo.mode = "unsupported"
     THEN /\ FreeWrite(w)
          /\ currentUser' = Some(WithLocation(Val(currentUser), DefaultLocation))
          /\ writes' = [writes EXCEPT ![w] =
                          Some([id |-> Val(currentUser).id,
                                patch |-> LocationPatch(DefaultLocation)])]
          /\ geo' = [geo EXCEPT !.stale = TRUE, !.watch = "none"]
     ELSE /\ geo' = [geo EXCEPT !.stale = FALSE, !.watch = "watching"]
          /\ UNCHANGED << currentUser, writes >>
  /\ UNCHANGED << supabaseConfigured, mapVisible, listVisible, navigation,
                  applied, users, messages, channel, conn, sends, deletes,
                  backend >>

\* the error callback of the registered watch, lines 38-42, once for a
\* watch: updateLocation(defaultLoc) up to its await
WatchError(w) ==
  /\ geo.mode = "failing"
  /\ geo.watch = "watching"
  /\ IF currentUser = Null
     THEN /\ geo' = [geo EXCEPT !.watch = "reported"]
          /\ UNCHANGED << currentUser, writes >>
     ELSE /\ FreeWrite(w)
          /\ currentUser' = Some(WithLocation(Val(currentUser), DefaultLocation))
          /\ writes' = [writes EXCEPT ![w] =
                          Some([id |-> Val(currentUser).id,
                                patch |-> LocationPatch(DefaultLocation)])]
          /\ geo' = [geo EXCEPT !.stale = TRUE, !.watch = "reported"]
  /\ UNCHANGED << supabaseConfigured, mapVisible, listVisible, navigation,
                  applied, users, messages, channel, conn, sends, deletes,
                  backend >>

\* ---------------------------------------------- realtime notifications
\* users handler, INSERT: lines 138-140
OnUserInsert(list, row) == Append(list, mapUser(row))
\* a users handler that adds the updated entity when the roster lacks it
OnUserUpdateOrAdd(list, row) ==
  IF \E i \in 1..Len(list) : list[i].id = mapUser(row).id
  THEN [i \in 1..Len(list) |-> IF list[i].id = mapUser(row).id
                               THEN mapUser(row) ELSE list[i]]
  ELSE Append(list, mapUser(row))

\* users handler, UPDATE: lines 142-145
OnUserUpdate(list, row) ==
  [i \in 1..Len(list) |-> IF list[i].id = mapUser(row).id
                          THEN mapUser(row) ELSE list[i]]
\* a users handler whose filter keeps the deleted entity only
OnUserDeleteInverted(list, old) ==
  SelectSeqBy(list, {u \in SeqRange(list) : u.id = old.id})

\* users handler, DELETE: lines 152-154
OnUserDelete(list, old) ==
  SelectSeqBy(list, {u \in SeqRange(list) : u.id # old.id})
\* a users handler that never refreshes self
OnSelfUpdateIgnored(cu, row) == cu

\* users handler, UPDATE: lines 147-150
OnSelfUpdate(cu, row) ==
  IF cu # Null /\ Val(cu).id = mapUser(row).id THEN Some(mapUser(row)) ELSE cu
\* the messages handler without its duplicate check
OnMessageInsertNoDedup(cu, log, row) ==
  LET newMessage == mapMessage(row) IN
  IF /\ cu # Null
     /\ (newMessage.from_user = Val(cu).id \/ newMessage.to_user = Val(cu).id)
  THEN Append(log, newMessage) ELSE log

\* messages handler: lines 162-174
OnMessageInsert(cu, log, row) ==
  LET newMessage == mapMessage(row) IN
  IF /\ cu # Null
     /\ (newMessage.from_user = Val(cu).id \/ newMessage.to_user = Val(cu).id)
     /\ ~HasMessage(log, newMessage.id)
  THEN Append(log, newMessage) ELSE log

Pending(h, table, type) ==
  /\ h \in DOMAIN subs
  /\ subs[h] # << >>
  /\ Head(subs[h]).table = table
  /\ Head(subs[h]).eventType = type

Consume(h) == subs' = [subs EXCEPT ![h] = Tail(subs[h])]

DeliverUserInsert(h) ==
  /\ Pending(h, "users", "INSERT")
  /\ users' = OnUserInsert(users, Head(subs[h]).row)
  /\ Consume(h)
  /\ UNCHANGED << supabaseConfigured, view, currentUser, messages, channel, calls,
                  srvUsers, nextUserId, peerIds, srvMessages >>

DeliverUserUpdate(h) ==
  /\ Pending(h, "users", "UPDATE")
  /\ users' = OnUserUpdate(users, Head(subs[h]).row)
  /\ currentUser' = OnSelfUpdate(currentUser, Head(subs[h]).row)
  /\ SelfReplaced(currentUser # Null
                    /\ Head(subs[h]).row.id = Val(currentUser).id)
  /\ Consume(h)
  /\ UNCHANGED << supabaseConfigured, mapVisible, listVisible, navigation,
                  applied, messages, channel, calls, srvUsers, nextUserId,
                  peerIds, srvMessages >>

DeliverUserDelete(h) ==
  /\ Pending(h, "users", "DELETE")
  /\ users' = OnUserDelete(users, Head(subs[h]).row)
  /\ Consume(h)
  /\ UNCHANGED << supabaseConfigured, view, currentUser, messages, channel, calls,
                  srvUsers, nextUserId, peerIds, srvMessages >>

DeliverMessageInsert(h) ==
  /\ Pending(h, "messages", "INSERT")
  /\ messages' = OnMessageInsert(currentUser, messages, Head(subs[h]).row)
  /\ Consume(h)
  /\ UNCHANGED << supabaseConfigured, view, currentUser, users, channel, calls,
                  srvUsers, nextUserId, peerIds, srvMessages >>

\* ------------------------------------------------------------ other clients
\* another client connects: the backend stores its row
PeerJoins(name, role) ==
  /\ Cardinality(peerIds) < MaxPeers
  /\ CanBroadcast
  /\ LET row == NewUserRow(nextUserId, name, role) IN
     /\ srvUsers' = srvUsers \cup {row}
     /\ subs' = Broadcast(UserEvent("INSERT", row))
  /\ peerIds' = peerIds \cup {nextUserId}
  /\ nextUserId' = nextUserId + 1
  /\ UNCHANGED << supabaseConfigured, view, store, calls, srvMessages >>

\* another client's mutation is committed
PeerUpdates(id, patch) ==
  /\ id \in peerIds \cap RowIds
  /\ PatchRow(RowOf(id), patch) # RowOf(id)
  /\ CommitUpdate(id, patch)
  /\ UNCHANGED << supabaseConfigured, view, store, calls, nextUserId, peerIds,
                  srvMessages >>

\* another client cleans up: its row is deleted
PeerLeaves(id) ==
  /\ id \in peerIds \cap RowIds
  /\ CanBroadcast
  /\ srvUsers' = srvUsers \ {RowOf(id)}
  /\ subs' = Broadcast(UserEvent("DELETE", [id |-> id]))
  /\ UNCHANGED << supabaseConfigured, view, store, calls, nextUserId, peerIds,
                  srvMessages >>

\* another client's message is committed
PeerSends(from, to, text) ==
  /\ from \in peerIds \cap RowIds
  /\ to \in RowIds
  /\ Len(srvMessages) < MaxMsgs
  /\ CanBroadcast
  /\ LET row == NewMessageRow(Len(srvMessages) + 1, from, to, text) IN
     /\ srvMessages' = Append(srvMessages, row)
     /\ subs' = Broadcast(MessageEvent(row))
  /\ UNCHANGED << supabaseConfigured, view, store, calls, srvUsers, nextUserId,
                  peerIds >>

Patches ==
  {LocationPatch(l) : l \in Locations}
    \cup {OnlinePatch(b) : b \in BOOLEAN}
    \cup {PremiumPatch(b) : b \in BOOLEAN}

\* ------------------------------------------------------------- visibility
\* Positions are in thousandths of a degree, close to latitude 0.
Positions == Locations \cup {[lat |-> 30, lng |-> 1], [lat |-> 60, lng |-> 2]}

MetersPerKm == 1000

\* (6371000 * pi / 180 / 1000) ^ 2: the square of the metres of great
\* circle per thousandth of a degree, for Earth radius 6371 km
SqMetersPerSqMilliDegree == 12364

\* getDistance of ../utils, in whole metres: the great-circle distance for
\* Earth radius 6371 km.  Within a tenth of a degree of the equator and of
\* each other the haversine formula agrees with R * sqrt(dLat^2 + dLon^2)
\* to less than a metre.
getDistance(lat1, lng1, lat2, lng2) ==
  LET dLat == lat2 - lat1
      dLon == lng2 - lng1
      sq == (dLat * dLat + dLon * dLon) * SqMetersPerSqMilliDegree
      \* the square root of sq rounded down, known to lie in lo..hi
      RECURSIVE SqrtBetween(_, _)
      SqrtBetween(lo, hi) ==
        IF lo = hi THEN lo
        ELSE LET mid == (lo + hi + 1) \div 2 IN
             IF mid * mid <= sq THEN SqrtBetween(mid, hi)
             ELSE SqrtBetween(lo, mid - 1)
  IN SqrtBetween(0, 32767)

\* MapView, line 182: the radius in km
MapViewRadiusSwapped(cu) == IF cu.isPremium THEN 1 ELSE 5

MapViewRadius(cu) == IF cu.isPremium THEN 5 ELSE 1

\* MapView, lines 185-199: the callback of users.filter with the roles not
\* compared
MapViewShowsAnyRole(cu, u) ==
  IF u.id = cu.id THEN FALSE
  ELSE IF ~u.isOnline THEN FALSE
  ELSE IF u.location = Null THEN FALSE
  ELSE getDistance(Val(cu.location).lat, Val(cu.location).lng,
                   Val(u.location).lat, Val(u.location).lng)
         <= MapViewRadius(cu) * MetersPerKm

\* MapView, lines 185-199: the callback of users.filter
MapViewShows(cu, u) ==
  IF u.id = cu.id THEN FALSE
  ELSE IF ~u.isOnline THEN FALSE
  ELSE IF u.location = Null THEN FALSE
  ELSE IF u.role = cu.role THEN FALSE
  ELSE getDistance(Val(cu.location).lat, Val(cu.location).lng,
                   Val(u.location).lat, Val(u.location).lng)
         <= MapViewRadius(cu) * MetersPerKm

MapViewVisibleUsers(cu, list) ==
  SelectSeqBy(list, {u \in SeqRange(list) : MapViewShows(cu, u)})

\* a MapView that filters without a position of self, skipping the distance
MapViewScreenUnplaced(cu, list) ==
  IF cu = Null
  THEN [screen |-> "acquiring", users |-> << >>]
  ELSE IF Val(cu).location = Null
  THEN [screen |-> "map",
        users |-> SelectSeqBy(list, {u \in SeqRange(list) :
                                       /\ u.id # Val(cu).id
                                       /\ u.isOnline
                                       /\ u.role # Val(cu).role})]
  ELSE [screen |-> "map", users |-> MapViewVisibleUsers(Val(cu), list)]

\* MapView, lines 170-199: the placeholder, or the map with its markers
MapViewScreen(cu, list) ==
  IF cu = Null \/ Val(cu).location = Null
  THEN [screen |-> "acquiring", users |-> << >>]
  ELSE [screen |-> "map", users |-> MapViewVisibleUsers(Val(cu), list)]

\* MapView renders from the store
RenderMapView ==
  /\ mapVisible' = Some(MapViewScreen(currentUser, users))
  /\ mapVisible' # mapVisible
  /\ UNCHANGED << supabaseConfigured, store, calls, backend, listVisible, geo,
                  navigation, applied >>

\* UserList, line 554: the radius in km
UserListRadius(cu) == IF cu.isPremium THEN 5 ELSE 1

\* UserList, lines 556-570: the callback of users.filter
UserListShows(cu, u) ==
  IF u.id = cu.id THEN FALSE
  ELSE IF ~u.isOnline THEN FALSE
  ELSE IF u.location = Null THEN FALSE
  ELSE IF u.role = cu.role THEN FALSE
  ELSE getDistance(Val(cu.location).lat, Val(cu.location).lng,
                   Val(u.location).lat, Val(u.location).lng)
         <= UserListRadius(cu) * MetersPerKm

UserListVisibleUsers(cu, list) ==
  SelectSeqBy(list, {u \in SeqRange(list) : UserListShows(cu, u)})

\* UserList, lines 541-570: the placeholder, or the list
UserListScreen(cu, list) ==
  IF cu = Null \/ Val(cu).location = Null
  THEN [screen |-> "acquiring", users |-> << >>]
  ELSE [screen |-> "list", users |-> UserListVisibleUsers(Val(cu), list)]

\* UserList renders from the store
RenderUserList ==
  /\ listVisible' = Some(UserListScreen(currentUser, users))
  /\ listVisible' # listVisible
  /\ UNCHANGED << supabaseConfigured, store, calls, backend, mapVisible, geo,
                  navigation, applied >>

\* a row of the users table as mutations leave it
UserRow(id, name, role, position, online, premium) ==
  [id |-> id, name |-> name, role |-> role,
   lat |-> IF position = Null THEN Null ELSE Some(Val(position).lat),
   lng |-> IF position = Null THEN Null ELSE Some(Val(position).lng),
   is_online |-> online, is_premium |-> premium]

\* a connected session: n other entities were created and changed before
\* self connected, the roster is the snapshot connect fetched, and self has
\* toggled and moved since, with every notification delivered
InitVisibility ==
  /\ supabaseConfigured = TRUE
  /\ \E n \in 0..MaxRoster :
       LET positions == {Null} \cup {Some(l) : l \in Positions}
           PeerRows(id) ==
             {UserRow(id, name, role, position, online, FALSE) :
                name \in PeerNames, role \in Roles, position \in positions,
                online \in BOOLEAN}
           SelfRows(id) ==
             {UserRow(id, name, role, position, online, premium) :
                name \in Names, role \in Roles, position \in positions,
                online \in BOOLEAN, premium \in BOOLEAN}
       IN
       \E peers \in [1..n -> UNION {PeerRows(id) : id \in 1..n}],
          self \in SelfRows(n + 1) :
         /\ \A id \in 1..n : peers[id].id = id
         /\ srvUsers = {peers[id] : id \in 1..n} \cup {self}
         /\ nextUserId = n + 2
         /\ peerIds = 1..n
         /\ currentUser = Some(mapUser(self))
         /\ users = [i \in 1..(n + 1) |->
                       IF i <= n THEN mapUser(peers[i]) ELSE mapUser(self)]
  /\ messages = << >>
  /\ channel = Some(NewChannel(1))
  /\ conn = [c \in 1..MaxConnects |->
               IF c = 1 THEN [IdleConn EXCEPT !.pc = "done"] ELSE IdleConn]
  /\ sends = [s \in 1..MaxSends |-> IdleSend]
  /\ writes = [w \in 1..MaxWrites |-> Null]
  /\ deletes = {}
  /\ srvMessages = << >>
  /\ subs = [h \in {NewChannel(1)} |-> << >>]
  /\ InitView

\* ------------------------------------------------------------- directions
\* Strings that are taken apart are sequences of characters.

\* String.prototype.toUpperCase on one character
toUpperCase(ch) ==
  LET lower == << "a", "b", "c", "d", "e", "f", "g", "h", "i", "j", "k", "l",
                  "m", "n", "o", "p", "q", "r", "s", "t", "u", "v", "w", "x",
                  "y", "z" >>
      upper == << "A", "B", "C", "D", "E", "F", "G", "H", "I", "J", "K", "L",
                  "M", "N", "O", "P", "Q", "R", "S", "T", "U", "V", "W", "X",
                  "Y", "Z" >>
  IN IF \E i \in 1..Len(lower) : lower[i] = ch
     THEN upper[CHOOSE i \in 1..Len(lower) : lower[i] = ch]
     ELSE ch

\* a capitalize whose replace has no g flag: the first hyphen only
capitalizeFirstHyphen(str) ==
  IF str = << >> THEN << >>
  ELSE << toUpperCase(str[1]) >>
       \o [i \in 1..(Len(str) - 1) |->
             IF str[i + 1] = "-" /\ \A j \in 2..i : str[j] # "-"
             THEN " " ELSE str[i + 1]]

\* s.charAt(0).toUpperCase() + s.slice(1).replace(/-/g, " ")
capitalize(str) ==
  IF str = << >> THEN << >>
  ELSE << toUpperCase(str[1]) >>
       \o [i \in 1..(Len(str) - 1) |->
             IF str[i + 1] = "-" THEN " " ELSE str[i + 1]]

\* the instruction of a step: lines 98-102 (the dash of the source is
\* written with two hyphens)
Instruction(step) ==
  LET maneuver == Val(step.maneuver) IN
  IF maneuver.type = << "d", "e", "p", "a", "r", "t" >>
  THEN << "S", "t", "a", "r", "t" >>
  ELSE IF maneuver.type = << "a", "r", "r", "i", "v", "e" >>
  THEN << "A", "r", "r", "i", "v", "e", " ", "a", "t", " ", "d", "e", "s",
          "t", "i", "n", "a", "t", "i", "o", "n" >>
  ELSE capitalize(maneuver.type)
       \o (IF maneuver.modifier # Null /\ Val(maneuver.modifier) # << >>
           THEN << " " >> \o Val(maneuver.modifier) ELSE << >>)
       \o << " ", "-", "-", " " >>
       \o (IF step.name # << >> THEN step.name
           ELSE << "u", "n", "n", "a", "m", "e", "d", " ", "r", "o", "a",
                   "d" >>)

\* a number that is not one: undefined / 1000
NaN == Null
\* x / d for a number x, or for the undefined of a missing field
Quotient(x, d) ==
  IF x = Null THEN NaN ELSE Some([num |-> Val(x), den |-> d])

MetersPerKilometer == 1000
SecondsPerMinute == 60

Threw == [threw |-> TRUE, value |-> Null]
Returned(v) == [threw |-> FALSE, value |-> v]

\* fetchRoute, the body of its try block: lines 81-112.  A rejected fetch
\* or json(), the two throw statements and a property read on undefined
\* all leave the block by an exception.
FetchRouteTry(response) ==
  IF ~response.reached THEN Threw
  ELSE IF ~response.ok THEN Threw
  ELSE IF response.json = Null THEN Threw
  ELSE LET data == Val(response.json) IN
       IF data.code # "Ok" \/ data.routes = Null \/ Val(data.routes) = << >>
       THEN Threw
       ELSE LET route == Val(data.routes)[1] IN
            IF route.geometry = Null THEN Threw
            ELSE IF route.legs = Null \/ Val(route.legs) = << >> THEN Threw
            ELSE IF Val(route.legs)[1].steps = Null THEN Threw
            ELSE LET geometry == Val(route.geometry)
                     steps == Val(Val(route.legs)[1].steps)
                 IN IF \E i \in 1..Len(steps) : steps[i].maneuver = Null
                    THEN Threw
                    ELSE Returned(Some(
                      [coordinates |->
                         [i \in 1..Len(geometry.coordinates) |->
                            << geometry.coordinates[i][2],
                               geometry.coordinates[i][1] >>],
                       totalDistance |->
                         Quotient(route.distance, MetersPerKilometer),
                       totalDuration |->
                         Quotient(route.duration, SecondsPerMinute),
                       steps |->
                         [i \in 1..Len(steps) |->
                            [instruction |-> Instruction(steps[i]),
                             distance |-> steps[i].distance,
                             duration |-> steps[i].duration]]]))

\* fetchRoute: the catch block returns null, lines 113-116
fetchRoute(response) ==
  IF FetchRouteTry(response).threw THEN Returned(Null)
  ELSE FetchRouteTry(response)

\* what the directions provider can answer to a request from -> to
GoodSteps ==
  << [maneuver |-> Some([type |-> << "d", "e", "p", "a", "r", "t" >>,
                         modifier |-> Null]),
      name |-> << "a", "1" >>, distance |-> 100, duration |-> 20],
     [maneuver |-> Some([type |-> << "o", "n", "-", "r", "a", "m", "p" >>,
                         modifier |-> Some(<< "l", "e", "f", "t" >>)]),
      name |-> << >>, distance |-> 2900, duration |-> 400],
     [maneuver |-> Some([type |-> << "a", "r", "r", "i", "v", "e" >>,
                         modifier |-> Null]),
      name |-> << "b", "2" >>, distance |-> 0, duration |-> 0] >>

GoodRoute(from, to) ==
  [geometry |-> Some([coordinates |-> << << from.lng, from.lat >>,
                                         << to.lng, to.lat >> >>]),
   legs |-> Some(<< [steps |-> Some(GoodSteps)] >>),
   distance |-> Some(3000),
   duration |-> Some(420)]

Answer(code, routes) ==
  [reached |-> TRUE, ok |-> TRUE,
   json |-> Some([code |-> code, routes |-> routes])]

\* the answers to a request from -> to: the provider is unreachable,
\* answers a non-success status, a body that is not JSON, a code other than
\* Ok or no route; a route that lacks a part the summary reads; a whole route
Responses(from, to) ==
  LET good == GoodRoute(from, to)
      malformed ==
        { [good EXCEPT !.geometry = Null],
          [good EXCEPT !.legs = Null],
          [good EXCEPT !.legs = Some(<< >>)],
          [good EXCEPT !.legs = Some(<< [steps |-> Null] >>)],
          [good EXCEPT
             !.legs = Some(<< [steps |-> Some(<< [GoodSteps[1] EXCEPT
                                                   !.maneuver = Null] >>)] >>)],
          [good EXCEPT !.distance = Null, !.duration = Null] }
  IN { [reached |-> FALSE, ok |-> FALSE, json |-> Null],
       [reached |-> TRUE, ok |-> FALSE, json |-> Null],
       [reached |-> TRUE, ok |-> TRUE, json |-> Null],
       Answer("NoRoute", Null),
       Answer("Ok", Null),
       Answer("Ok", Some(<< >>)) }
       \cup {Answer("Ok", Some(<< r >>)) : r \in malformed \cup {good}}

RouteErrorMessage == "Could not find a route. Please try again."

\* the Direction button of a shown user's popup: startNavigation(position,
\* [u.location.lat, u.location.lng]) up to its await, lines 146-153
StartNavigation(k, u) ==
  /\ navCalls[k].pc = "idle"
  /\ \A j \in 1..(k - 1) : navCalls[j].pc # "idle"
  /\ mapVisible # Null
  /\ u \in SeqRange(Val(mapVisible).users)
  /\ currentUser # Null
  /\ Val(currentUser).location # Null
  /\ nav' = [routeTo |-> u.location, routeData |-> Null,
             routeLoading |-> TRUE, routeError |-> Null,
             showSteps |-> FALSE]
  /\ navCalls' = [navCalls EXCEPT ![k] =
                    [IdleNavCall EXCEPT !.pc = "fetching",
                                        !.from = Val(currentUser).location,
                                        !.to = u.location]]
  /\ UNCHANGED << supabaseConfigured, store, calls, backend, rendered,
                  applied >>

\* the provider's answer to the request of call k arrives
OsrmResponds(k, response) ==
  /\ navCalls[k].pc = "fetching"
  /\ response \in Responses(Val(navCalls[k].from), Val(navCalls[k].to))
  /\ navCalls' = [navCalls EXCEPT ![k].pc = "fetched",
                                  ![k].response = Some(response)]
  /\ UNCHANGED << supabaseConfigured, store, calls, backend, rendered, nav,
                  applied >>

\* fetchRoute finishes and startNavigation resumes: lines 154-159.  An
\* exception that left fetchRoute would reject startNavigation's promise
\* before any of its setters.
NavigationResumes(k) ==
  /\ navCalls[k].pc = "fetched"
  /\ LET result == fetchRoute(Val(navCalls[k].response)) IN
     IF result.threw
     THEN /\ navCalls' = [navCalls EXCEPT ![k].pc = "rejected"]
          /\ UNCHANGED nav
     ELSE /\ navCalls' = [navCalls EXCEPT ![k].pc = "done",
                                          ![k].data = Some(result.value)]
          /\ IF result.value # Null
             THEN nav' = [nav EXCEPT !.routeData = result.value,
                                     !.routeLoading = FALSE]
             ELSE nav' = [nav EXCEPT !.routeError = Some(RouteErrorMessage),
                                     !.routeLoading = FALSE]
  /\ UNCHANGED << supabaseConfigured, store, calls, backend, rendered,
                  applied >>

\* the End Navigation button, shown while routeTo is set: lines 162-168
EndNavigation ==
  /\ nav.routeTo # Null
  /\ nav' = IdleNav
  /\ UNCHANGED << supabaseConfigured, store, calls, backend, rendered,
                  navCalls, applied >>

\* the Steps button, shown with a route that has steps: lines 376-383
ToggleSteps ==
  /\ nav.routeTo # Null
  /\ nav.routeData # Null
  /\ Len(Val(nav.routeData).steps) > 0
  /\ nav' = [nav EXCEPT !.showSteps = ~nav.showSteps]
  /\ UNCHANGED << supabaseConfigured, store, calls, backend, rendered,
                  navCalls, applied >>

\* a connected session of a premium driver at the first position, whose
\* roster holds two online passengers, 157 m and 3.2 km away
InitRoute ==
  /\ InitVisibility
  /\ currentUser =
       Some(mapUser(UserRow(3, "ann", "driver", Some([lat |-> 1, lng |-> 1]),
                            TRUE, TRUE)))
  /\ Len(users) = 3
  /\ users[1] = mapUser(UserRow(1, "bob", "passenger",
                                Some([lat |-> 2, lng |-> 2]), TRUE, FALSE))
  /\ users[2] = mapUser(UserRow(2, "bob", "passenger",
                                Some([lat |-> 30, lng |-> 1]), TRUE, FALSE))

\* ------------------------------------------------------------- formatting
\* A number is a non-negative fraction [num, den]; a number or NaN is a
\* fraction in Some(), or NaN.

RECURSIVE DecimalString(_)
\* the decimal digits of a natural number: `${n}`
DecimalString(n) ==
  LET digits == << "0", "1", "2", "3", "4", "5", "6", "7", "8", "9" >> IN
  IF n < 10 THEN << digits[n + 1] >>
  ELSE DecimalString(n \div 10) \o << digits[(n % 10) + 1] >>

\* Math.round(x): the integer nearest to x, the larger one of two
MathRound(x) == (2 * x.num + x.den) \div (2 * x.den)

\* x.toFixed(1): n / 10 for the integer n nearest to 10 * x, the larger one
\* of two
toFixed1(x) ==
  LET n == MathRound([num |-> 10 * x.num, den |-> x.den]) IN
  DecimalString(n \div 10) \o << "." >> \o DecimalString(n % 10)

\* function formatDuration(minutes): lines 123-129; every comparison with
\* NaN is false
formatDuration(minutes) ==
  IF minutes = NaN THEN << "N", "a", "N", "h", " ", "N", "a", "N", "m" >>
  ELSE LET m == Val(minutes) IN
       IF m.num < m.den THEN << "<", " ", "1", " ", "m", "i", "n" >>
       ELSE IF m.num < 60 * m.den
       THEN DecimalString(MathRound(m)) \o << " ", "m", "i", "n" >>
       ELSE LET hours == m.num \div (60 * m.den)
                mins == MathRound([num |-> m.num % (60 * m.den),
                                   den |-> m.den])
            IN DecimalString(hours) \o << "h", " " >> \o DecimalString(mins)
                 \o << "m" >>

\* function formatDistance(meters): lines 131-134
formatDistance(meters) ==
  IF meters = NaN THEN << "N", "a", "N", " ", "k", "m" >>
  ELSE LET m == Val(meters) IN
       IF m.num < 1000 * m.den
       THEN DecimalString(MathRound(m)) \o << " ", "m" >>
       ELSE toFixed1([num |-> m.num, den |-> m.den * 1000])
              \o << " ", "k", "m" >>

ApplyFormatDuration ==
  /\ input # Null
  /\ Val(input).fn = "formatDuration"
  /\ output = Null
  /\ output' = Some(formatDuration(Val(input).arg))
  /\ UNCHANGED << supabaseConfigured, store, calls, backend, rendered,
                  navigation, input >>

ApplyFormatDistance ==
  /\ input # Null
  /\ Val(input).fn = "formatDistance"
  /\ output = Null
  /\ output' = Some(formatDistance(Val(input).arg))
  /\ UNCHANGED << supabaseConfigured, store, calls, backend, rendered,
                  navigation, input >>

\* fetchRoute(from, to) once the provider has answered: lines 86-116
ApplyFetchRoute ==
  /\ input # Null
  /\ Val(input).fn = "fetchRoute"
  /\ output = Null
  /\ output' = Some(fetchRoute(Val(input).arg).value)
  /\ UNCHANGED << supabaseConfigured, store, calls, backend, rendered,
                  navigation, input >>

\* ------------------------------------------------------ IEEE 754 doubles
\* A natural number of any size is the sequence of its digits to the base
\* 2^14, least significant first and without a leading zero; a double is
\* (-1)^neg * man * 2^exp with a man of 53 binary digits, or zero with the
\* empty man. A number or NaN is a double in Some(), or NaN. Infinities,
\* subnormal numbers and the negative zero do not arise from coordinates in
\* whole degrees. Carries are looked ahead instead of rippled, which keeps
\* the evaluation shallow.
LimbBits == 14
Base == 2^LimbBits
Precision == 53

\* a without its leading zeros
Trim(a) ==
  SubSeq(a, 1, IF \A i \in 1..Len(a) : a[i] = 0 THEN 0
               ELSE CHOOSE i \in 1..Len(a) :
                      a[i] # 0 /\ \A j \in (i + 1)..Len(a) : a[j] = 0)

\* a natural number below 2^31
NatOf(n) == Trim(<< n % Base, (n \div Base) % Base, n \div (Base * Base) >>)

\* the i-th digit of a
Limb(a, i) == IF 1 <= i /\ i <= Len(a) THEN a[i] ELSE 0

\* a + b
AddN(a, b) ==
  LET n == (IF Len(a) < Len(b) THEN Len(b) ELSE Len(a)) + 1
      s(i) == Limb(a, i) + Limb(b, i)
      carry(i) == \E j \in 1..(i - 1) :
                    s(j) >= Base /\ \A k \in (j + 1)..(i - 1) : s(k) = Base - 1
  IN Trim([i \in 1..n |-> (s(i) + IF carry(i) THEN 1 ELSE 0) % Base])

\* a - b for a >= b
SubN(a, b) ==
  LET borrow(i) == \E j \in 1..(i - 1) :
                     /\ Limb(a, j) < Limb(b, j)
                     /\ \A k \in (j + 1)..(i - 1) : Limb(a, k) = Limb(b, k)
  IN Trim([i \in 1..Len(a) |->
             (Base + a[i] - Limb(b, i) - IF borrow(i) THEN 1 ELSE 0) % Base])

\* a < b
LessN(a, b) ==
  \/ Len(a) < Len(b)
  \/ /\ Len(a) = Len(b)
     /\ \E i \in 1..Len(a) :
          a[i] < b[i] /\ \A j \in (i + 1)..Len(a) : a[j] = b[j]

\* a * b for an a or a b below 2^98: the columns of the long multiplication
\* are below 2^31 and are added up as three numbers
MulN(a, b) ==
  LET n == Len(a) + Len(b)
      column(k) ==
        LET sum[i \in 0..Len(a)] ==
              IF i = 0 THEN 0 ELSE sum[i - 1] + a[i] * Limb(b, k + 1 - i)
        IN sum[Len(a)]
      low == [k \in 1..n |-> column(k) % Base]
      mid == [k \in 1..(n + 1) |-> (column(k - 1) \div Base) % Base]
      high == [k \in 1..(n + 2) |-> column(k - 2) \div (Base * Base)]
  IN AddN(AddN(low, mid), high)

\* a * 2^k
ShiftLeft(a, k) ==
  LET p == 2^(k % LimbBits) IN
  Trim([i \in 1..(k \div LimbBits) |-> 0]
       \o [i \in 1..(Len(a) + 1) |->
             ((Limb(a, i) * p) % Base) + ((Limb(a, i - 1) * p) \div Base)])

\* a divided by 2^k, rounded down
ShiftRight(a, k) ==
  IF Len(a) <= k \div LimbBits THEN << >>
  ELSE LET b == SubSeq(a, k \div LimbBits + 1, Len(a))
           p == 2^(k % LimbBits)
       IN Trim([i \in 1..Len(b) |->
                  (b[i] \div p) + (Limb(b, i + 1) % p) * (Base \div p)])

\* the number of binary digits of a
BitLen(a) ==
  IF a = << >> THEN 0
  ELSE (Len(a) - 1) * LimbBits
       + (CHOOSE k \in 1..LimbBits :
            2^(k - 1) <= a[Len(a)] /\ a[Len(a)] < 2^k)

Zero == Some([neg |-> FALSE, man |-> << >>, exp |-> 0])

\* the double nearest to (-1)^neg * n * 2^e, the even one of two
RoundToDouble(neg, n, e) ==
  LET \* m has 53 or, rounded up to a power of two, 54 binary digits
      Pack(m, x) ==
        IF BitLen(m) > Precision
        THEN Some([neg |-> neg, man |-> ShiftRight(m, 1), exp |-> x + 1])
        ELSE Some([neg |-> neg, man |-> m, exp |-> x])
      \* n / 2^k to the nearest integer: n + 2^(k-1) rounded down, less one
      \* before that when n / 2^k rounded down is even
      Rounded(k) ==
        ShiftRight(SubN(AddN(n, ShiftLeft(<< 1 >>, k - 1)),
                        IF ShiftRight(n, k)[1] % 2 = 1 THEN << >>
                        ELSE << 1 >>), k)
      Normal(len) ==
        IF len <= Precision
        THEN Some([neg |-> neg, man |-> ShiftLeft(n, Precision - len),
                   exp |-> e - (Precision - len)])
        ELSE Pack(Rounded(len - Precision), e + len - Precision)
  IN IF n = << >> THEN Zero ELSE Normal(BitLen(n))

\* an integer literal
Number(n) == RoundToDouble(n < 0, NatOf(IF n < 0 THEN 0 - n ELSE n), 0)

\* -x
Negated(x) ==
  IF x = NaN \/ x = Zero THEN x
  ELSE Some([Val(x) EXCEPT !.neg = ~Val(x).neg])

\* x + y
Plus(x, y) ==
  LET e == IF Val(x).exp < Val(y).exp THEN Val(x).exp ELSE Val(y).exp
      Sum(a, b) ==
        IF Val(x).neg = Val(y).neg
        THEN RoundToDouble(Val(x).neg, AddN(a, b), e)
        ELSE RoundToDouble(IF LessN(a, b) THEN Val(y).neg ELSE Val(x).neg,
                           IF LessN(a, b) THEN SubN(b, a) ELSE SubN(a, b), e)
  IN IF x = NaN \/ y = NaN THEN NaN
     ELSE IF x = Zero THEN y
     ELSE IF y = Zero THEN x
     ELSE Sum(ShiftLeft(Val(x).man, Val(x).exp - e),
              ShiftLeft(Val(y).man, Val(y).exp - e))

\* x * y
Times(x, y) ==
  IF x = NaN \/ y = NaN THEN NaN
  ELSE RoundToDouble(Val(x).neg # Val(y).neg,
                     MulN(Val(x).man, Val(y).man), Val(x).exp + Val(y).exp)

\* x / k for a whole number k of 1..Base - 1, the divisors being the
\* literals 180 and 2
Over(x, k) ==
  LET Divided(n) ==
        LET rem[i \in 1..(Len(n) + 1)] ==
              IF i = Len(n) + 1 THEN 0 ELSE (rem[i + 1] * Base + n[i]) % k
            quot == [i \in 1..Len(n) |-> (rem[i + 1] * Base + n[i]) \div k]
        IN RoundToDouble(Val(x).neg,
                         AddN(AddN(quot, quot),
                              IF rem[1] = 0 THEN << >> ELSE << 1 >>),
                         Val(x).exp - 2 * LimbBits - 1)
  IN IF x = NaN THEN NaN
     ELSE Divided(ShiftLeft(Val(x).man, 2 * LimbBits))

\* Math.PI: 3.141592653589793
MathPI == Some([neg |-> FALSE, man |-> << 11544, 4368, 8117, 1608 >>,
                exp |-> -51])

\* Math.sin, Math.cos, Math.atan2 and Math.sqrt are library functions: they
\* are modelled by their values at the positive arguments that arise from
\* Coordinates, in rows of << argument(s), value >>. fdlibm (the library of
\* V8) and glibc return the same sines and cosines here; the arc tangents
\* are those of fdlibm; the square roots are the correctly rounded ones.
MathValues ==
  [sin |->
     { \* sin(0.008726646259971648) = 0.008726535498373935
       << [man |-> << 7481, 2378, 13418, 1143 >>, exp |-> -59],
          [man |-> << 3105, 4693, 13180, 1143 >>, exp |-> -59] >>,
       \* sin(0.03490658503988659) = 0.03489949670250097
       << [man |-> << 7481, 2378, 13418, 1143 >>, exp |-> -57],
          [man |-> << 7207, 10207, 9612, 1143 >>, exp |-> -57] >>,
       \* sin(0.061086523819801536) = 0.06104853953485687
       << [man |-> << 4900, 12354, 11193, 2001 >>, exp |-> -57],
          [man |-> << 8909, 1578, 7185, 2000 >>, exp |-> -57] >>,
       \* sin(0.06981317007977318) = 0.0697564737441253
       << [man |-> << 7481, 2378, 13418, 1143 >>, exp |-> -56],
          [man |-> << 4392, 13737, 14582, 1142 >>, exp |-> -56] >>,
       \* sin(0.07853981633974483) = 0.07845909572784494
       << [man |-> << 12512, 6771, 13047, 1286 >>, exp |-> -56],
          [man |-> << 3657, 2278, 7763, 1285 >>, exp |-> -56] >>,
       \* sin(0.09599310885968812) = 0.09584575252022398
       << [man |-> << 6190, 15558, 12305, 1572 >>, exp |-> -56],
          [man |-> << 11608, 4643, 5518, 1570 >>, exp |-> -56] >>,
       \* sin(0.10471975511965978) = 0.10452846326765347
       << [man |-> << 11222, 3567, 11935, 1715 >>, exp |-> -56],
          [man |-> << 5996, 11505, 9737, 1712 >>, exp |-> -56] >>,
       \* sin(0.11344640137963143) = 0.11320321376790672
       << [man |-> << 16253, 7960, 11564, 1858 >>, exp |-> -56],
          [man |-> << 11509, 5053, 11820, 1854 >>, exp |-> -56] >>,
       \* sin(0.13962634015954636) = 0.13917310096006544
       << [man |-> << 7481, 2378, 13418, 1143 >>, exp |-> -55],
          [man |-> << 7705, 6710, 1737, 1140 >>, exp |-> -55] >>,
       \* sin(0.17453292519943295) = 0.17364817766693033
       << [man |-> << 1159, 11165, 12676, 1429 >>, exp |-> -55],
          [man |-> << 13193, 14381, 8615, 1422 >>, exp |-> -55] >>,
       \* sin(0.20943951023931956) = 0.20791169081775934
       << [man |-> << 11222, 3567, 11935, 1715 >>, exp |-> -55],
          [man |-> << 6390, 12553, 3482, 1703 >>, exp |-> -55] >>,
       \* sin(0.3141592653589793) = 0.3090169943749474
       << [man |-> << 12512, 6771, 13047, 1286 >>, exp |-> -54],
          [man |-> << 10575, 7359, 12019, 1265 >>, exp |-> -54] >>,
       \* sin(1.2566370614359172) = 0.9510565162951535
       << [man |-> << 12512, 6771, 13047, 1286 >>, exp |-> -52],
          [man |-> << 5375, 3345, 12513, 1947 >>, exp |-> -53] >>,
       \* sin(1.5707963267948966) = 1.0
       << [man |-> << 11544, 4368, 8117, 1608 >>, exp |-> -52],
          [man |-> << 0, 0, 0, 1024 >>, exp |-> -52] >> },
   cos |->
     { \* cos(0.017453292519943295) = 0.9998476951563913
       << [man |-> << 7481, 2378, 13418, 1143 >>, exp |-> -58],
          [man |-> << 12170, 8150, 11273, 2047 >>, exp |-> -53] >>,
       \* cos(0.13962634015954636) = 0.9902680687415704
       << [man |-> << 7481, 2378, 13418, 1143 >>, exp |-> -55],
          [man |-> << 5242, 9410, 1130, 2028 >>, exp |-> -53] >>,
       \* cos(0.20943951023931956) = 0.9781476007338057
       << [man |-> << 11222, 3567, 11935, 1715 >>, exp |-> -55],
          [man |-> << 128, 2536, 4035, 2003 >>, exp |-> -53] >> },
   atan2 |->
     { \* atan2(0.03489949670250097, 0.9993908270190958) = 0.03490658503988659
       << [man |-> << 7207, 10207, 9612, 1143 >>, exp |-> -57],
          [man |-> << 1383, 8956, 12327, 2046 >>, exp |-> -53],
          [man |-> << 7481, 2378, 13418, 1143 >>, exp |-> -57] >>,
       \* atan2(0.0697564737441253, 0.9975640502598243) = 0.06981317007977318
       << [man |-> << 4392, 13737, 14582, 1142 >>, exp |-> -56],
          [man |-> << 16375, 1475, 183, 2043 >>, exp |-> -53],
          [man |-> << 7481, 2378, 13418, 1143 >>, exp |-> -56] >>,
       \* atan2(0.10452846326765347, 0.9945218953682734) = 0.10471975511965977
       << [man |-> << 5996, 11505, 9737, 1712 >>, exp |-> -56],
          [man |-> << 10183, 5089, 12793, 2036 >>, exp |-> -53],
          [man |-> << 11221, 3567, 11935, 1715 >>, exp |-> -56] >>,
       \* atan2(0.3091166631159324, 0.951024126184016) = 0.31426406505954707
       << [man |-> << 4657, 1723, 2324, 1266 >>, exp |-> -54],
          [man |-> << 6844, 6101, 11426, 1947 >>, exp |-> -53],
          [man |-> << 2054, 6589, 3696, 1287 >>, exp |-> -54] >>,
       \* atan2(0.317338326545756, 0.9483123886700727) = 0.3229214167341986
       << [man |-> << 590, 9800, 13398, 1299 >>, exp |-> -54],
          [man |-> << 6377, 9181, 2355, 1942 >>, exp |-> -53],
          [man |-> << 2470, 7181, 11241, 1322 >>, exp |-> -54] >>,
       \* atan2(0.3258918930762856, 0.9454070414520693) = 0.3319549707301173
       << [man |-> << 5061, 11979, 13978, 1334 >>, exp |-> -54],
          [man |-> << 15213, 4664, 3172, 1936 >>, exp |-> -53],
          [man |-> << 13201, 16135, 11264, 1359 >>, exp |-> -54] >>,
       \* atan2(0.9454070414520693, 0.3258918930762856) = 1.2388413560647793
       << [man |-> << 15213, 4664, 3172, 1936 >>, exp |-> -53],
          [man |-> << 5061, 11979, 13978, 1334 >>, exp |-> -54],
          [man |-> << 12340, 334, 9397, 1268 >>, exp |-> -52] >>,
       \* atan2(0.9483123886700727, 0.3173383265457562) = 1.2478749100606978
       << [man |-> << 6377, 9181, 2355, 1942 >>, exp |-> -53],
          [man |-> << 594, 9800, 13398, 1299 >>, exp |-> -54],
          [man |-> << 6830, 14861, 13498, 1277 >>, exp |-> -52] >>,
       \* atan2(0.9945218953682734, 0.10452846326765335) = 1.466076571675237
       << [man |-> << 10183, 5089, 12793, 2036 >>, exp |-> -53],
          [man |-> << 5987, 11505, 9737, 1712 >>, exp |-> -56],
          [man |-> << 11868, 5169, 4299, 1501 >>, exp |-> -52] >>,
       \* atan2(0.9975640502598243, 0.06975647374412514) = 1.5009831567151237
       << [man |-> << 16375, 1475, 183, 2043 >>, exp |-> -53],
          [man |-> << 4380, 13737, 14582, 1142 >>, exp |-> -56],
          [man |-> << 838, 10364, 110, 1537 >>, exp |-> -52] >>,
       \* atan2(0.9993908270190958, 0.03489949670249974) = 1.5358897417550113
       << [man |-> << 1383, 8956, 12327, 2046 >>, exp |-> -53],
          [man |-> << 7030, 10207, 9612, 1143 >>, exp |-> -57],
          [man |-> << 6196, 15558, 12305, 1572 >>, exp |-> -52] >> },
   sqrt |->
     { \* sqrt(0.0012179748700877902) = 0.03489949670249974
       << [man |-> << 2048, 15360, 2280, 1277 >>, exp |-> -62],
          [man |-> << 7030, 10207, 9612, 1143 >>, exp |-> -57] >>,
       \* sqrt(0.001217974870087876) = 0.03489949670250097
       << [man |-> << 2444, 15360, 2280, 1277 >>, exp |-> -62],
          [man |-> << 7207, 10207, 9612, 1143 >>, exp |-> -57] >>,
       \* sqrt(0.004865965629214819) = 0.06975647374412514
       << [man |-> << 8576, 3947, 9563, 1275 >>, exp |-> -60],
          [man |-> << 4380, 13737, 14582, 1142 >>, exp |-> -56] >>,
       \* sqrt(0.004865965629214842) = 0.0697564737441253
       << [man |-> << 8603, 3947, 9563, 1275 >>, exp |-> -60],
          [man |-> << 4392, 13737, 14582, 1142 >>, exp |-> -56] >>,
       \* sqrt(0.010926199633097156) = 0.10452846326765335
       << [man |-> << 12288, 767, 1947, 1432 >>, exp |-> -59],
          [man |-> << 5987, 11505, 9737, 1712 >>, exp |-> -56] >>,
       \* sqrt(0.010926199633097182) = 0.10452846326765347
       << [man |-> << 12303, 767, 1947, 1432 >>, exp |-> -59],
          [man |-> << 5996, 11505, 9737, 1712 >>, exp |-> -56] >>,
       \* sqrt(0.09555311141592883) = 0.3091166631159324
       << [man |-> << 15689, 575, 8883, 1565 >>, exp |-> -56],
          [man |-> << 4657, 1723, 2324, 1266 >>, exp |-> -54] >>,
       \* sqrt(0.10070361349486086) = 0.317338326545756
       << [man |-> << 10461, 6706, 15204, 1649 >>, exp |-> -56],
          [man |-> << 590, 9800, 13398, 1299 >>, exp |-> -54] >>,
       \* sqrt(0.10070361349486101) = 0.3173383265457562
       << [man |-> << 10472, 6706, 15204, 1649 >>, exp |-> -56],
          [man |-> << 594, 9800, 13398, 1299 >>, exp |-> -54] >>,
       \* sqrt(0.10620552597284516) = 0.3258918930762856
       << [man |-> << 13712, 13012, 1168, 1740 >>, exp |-> -56],
          [man |-> << 5061, 11979, 13978, 1334 >>, exp |-> -54] >>,
       \* sqrt(0.8937944740271548) = 0.9454070414520693
       << [man |-> << 6478, 14757, 8045, 1830 >>, exp |-> -53],
          [man |-> << 15213, 4664, 3172, 1936 >>, exp |-> -53] >>,
       \* sqrt(0.899296386505139) = 0.9483123886700727
       << [man |-> << 10979, 7353, 12435, 1841 >>, exp |-> -53],
          [man |-> << 6377, 9181, 2355, 1942 >>, exp |-> -53] >>,
       \* sqrt(0.8992963865051391) = 0.9483123886700727
       << [man |-> << 10980, 7353, 12435, 1841 >>, exp |-> -53],
          [man |-> << 6377, 9181, 2355, 1942 >>, exp |-> -53] >>,
       \* sqrt(0.9044468885840712) = 0.951024126184016
       << [man |-> << 87, 10168, 5033, 1852 >>, exp |-> -53],
          [man |-> << 6844, 6101, 11426, 1947 >>, exp |-> -53] >>,
       \* sqrt(0.9890738003669028) = 0.9945218953682734
       << [man |-> << 64, 9460, 10209, 2025 >>, exp |-> -53],
          [man |-> << 10183, 5089, 12793, 2036 >>, exp |-> -53] >>,
       \* sqrt(0.9951340343707852) = 0.9975640502598243
       << [man |-> << 2621, 4705, 565, 2038 >>, exp |-> -53],
          [man |-> << 16375, 1475, 183, 2043 >>, exp |-> -53] >>,
       \* sqrt(0.9987820251299121) = 0.9993908270190958
       << [man |-> << 16379, 8929, 8283, 2045 >>, exp |-> -53],
          [man |-> << 1383, 8956, 12327, 2046 >>, exp |-> -53] >>,
       \* sqrt(0.9987820251299122) = 0.9993908270190958
       << [man |-> << 16380, 8929, 8283, 2045 >>, exp |-> -53],
          [man |-> << 1383, 8956, 12327, 2046 >>, exp |-> -53] >>,
       \* sqrt(1.0) = 1.0
       << [man |-> << 0, 0, 0, 1024 >>, exp |-> -52],
          [man |-> << 0, 0, 0, 1024 >>, exp |-> -52] >>,
       \* sqrt(1.0000000000000002) = 1.0
       << [man |-> << 1, 0, 0, 1024 >>, exp |-> -52],
          [man |-> << 0, 0, 0, 1024 >>, exp |-> -52] >> }]

\* Math.sin(x): sin(-x) is -sin(x)
MathSin(x) ==
  IF x = NaN \/ x = Zero THEN x
  ELSE LET row == CHOOSE row \in MathValues.sin :
                    row[1] = [man |-> Val(x).man, exp |-> Val(x).exp]
       IN Some([neg |-> Val(x).neg, man |-> row[2].man, exp |-> row[2].exp])

\* Math.cos(x): cos(-x) is cos(x)
MathCos(x) ==
  IF x = NaN THEN NaN
  ELSE IF x = Zero THEN Number(1)
  ELSE LET row == CHOOSE row \in MathValues.cos :
                    row[1] = [man |-> Val(x).man, exp |-> Val(x).exp]
       IN Some([neg |-> FALSE, man |-> row[2].man, exp |-> row[2].exp])

\* Math.atan2(y, x) for a y and an x that are not negative
MathAtan2(y, x) ==
  IF y = NaN \/ x = NaN THEN NaN
  ELSE IF y = Zero THEN Zero
  ELSE LET row == CHOOSE row \in MathValues.atan2 :
                    /\ row[1] = [man |-> Val(y).man, exp |-> Val(y).exp]
                    /\ row[2] = [man |-> Val(x).man, exp |-> Val(x).exp]
       IN Some([neg |-> FALSE, man |-> row[3].man, exp |-> row[3].exp])

\* Math.sqrt(x)
MathSqrt(x) ==
  IF x = NaN \/ x = Zero THEN x
  ELSE IF Val(x).neg THEN NaN
  ELSE LET row == CHOOSE row \in MathValues.sqrt :
                    row[1] = [man |-> Val(x).man, exp |-> Val(x).exp]
       IN Some([neg |-> FALSE, man |-> row[2].man, exp |-> row[2].exp])

\* function deg2rad(deg): lines 99-101
deg2rad(deg) == Times(deg, Over(MathPI, 180))

\* function getDistance(loc1, loc2) of the first server, lines 84-97, in
\* kilometres; getDistance above is the one that the components import.
\* Each constant of the source is computed once and handed on.
getDistanceKm(loc1, loc2) ==
  LET R == Number(6371)
      dLat == deg2rad(Plus(loc2.lat, Negated(loc1.lat)))
      dLon == deg2rad(Plus(loc2.lng, Negated(loc1.lng)))
      a(lat, lon) ==
        Plus(Times(MathSin(Over(lat, 2)), MathSin(Over(lat, 2))),
             Times(Times(Times(MathCos(deg2rad(loc1.lat)),
                               MathCos(deg2rad(loc2.lat))),
                         MathSin(Over(lon, 2))),
                   MathSin(Over(lon, 2))))
      c(x) == Times(Number(2),
                    MathAtan2(MathSqrt(x),
                              MathSqrt(Plus(Number(1), Negated(x)))))
      d(y) == Times(R, y)
  IN d(c(a(dLat, dLon)))

\* valid coordinates in whole degrees, two pairs of antipodes among them
Coordinates ==
  { [lat |-> Number(0), lng |-> Number(0)],
    [lat |-> Number(8), lng |-> Number(0)],
    [lat |-> Number(0 - 8), lng |-> Number(180)],
    [lat |-> Number(12), lng |-> Number(0)],
    [lat |-> Number(0 - 12), lng |-> Number(180)],
    [lat |-> Number(0 - 1), lng |-> Number(36)] }

\* getDistance(loc1, loc2), or getDistance(loc2, loc1) when swapped
ApplyGetDistance(swapped) ==
  /\ input # Null
  /\ Val(input).fn = "getDistance"
  /\ LET arg == Val(input).arg
         was == IF output = Null THEN [forward |-> Null, backward |-> Null]
                ELSE Val(output)
         call == IF swapped THEN "backward" ELSE "forward"
         loc1 == IF swapped THEN arg[2] ELSE arg[1]
         loc2 == IF swapped THEN arg[1] ELSE arg[2]
     IN /\ was[call] = Null
        /\ output' = Some([was EXCEPT ![call] =
                             Some(getDistanceKm(loc1, loc2))])
  /\ UNCHANGED << supabaseConfigured, store, calls, backend, rendered,
                  navigation, input >>

\* the steps a route of the provider is made of: a maneuver type, a modifier
\* or none, a road name or the empty one, metres and seconds
ProviderSteps ==
  { [maneuver |-> Some([type |-> type, modifier |-> modifier]),
     name |-> name, distance |-> measure[1], duration |-> measure[2]] :
      type \in { << "d", "e", "p", "a", "r", "t" >>,
                 << "a", "r", "r", "i", "v", "e" >>,
                 << "o", "n", "-", "r", "a", "m", "p" >>,
                 << "e", "n", "d", "-", "o", "f", "-", "r", "o", "a", "d" >> },
      modifier \in {Null, Some(<< "l", "e", "f", "t" >>)},
      name \in {<< >>, << "a", "1" >>},
      measure \in {<< 0, 0 >>, << 150, 20 >>} }

\* a function of the route panel or of the first server is about to be
\* applied: formatDuration to seconds / 60 (lines 110 and 411),
\* formatDistance to half metres (line 411), getDistance to two coordinates,
\* fetchRoute to an answer with a route of up to MaxSteps steps.
\* Left out are the distances whose kilometres fall on a decimal tie of
\* toFixed(1) that has no exact binary value: the nearest double of the
\* quotient decides their digit.
InitFunctions ==
  /\ InitStore
  /\ supabaseConfigured
  /\ srvUsers = {}
  /\ mapVisible = Null
  /\ listVisible = Null
  /\ geo = IdleGeo("working")
  /\ nav = IdleNav
  /\ navCalls = [k \in 1..MaxNavigations |-> IdleNavCall]
  /\ input \in
       {Some([fn |-> "formatDuration", arg |-> Some([num |-> s, den |-> 60])]) :
          s \in 0..MaxSeconds}
       \cup {Some([fn |-> "formatDistance",
                   arg |-> Some([num |-> h, den |-> 2])]) :
               h \in {h \in 0..MaxHalfMeters :
                        h % 200 # 100 \/ h % 1000 = 500}}
       \cup {Some([fn |-> "getDistance", arg |-> << p, q >>]) :
               p, q \in Coordinates}
       \cup {Some([fn |-> "fetchRoute",
                   arg |-> Answer("Ok", Some(<< [GoodRoute(p, q) EXCEPT
                             !.legs = Some(<< [steps |-> Some(steps)] >>)] >>))]) :
               p \in {[lat |-> 1, lng |-> 1]}, q \in {[lat |-> 2, lng |-> 2]},
               steps \in UNION {[1..n -> ProviderSteps] : n \in 0..MaxSteps}}
  /\ output = Null

\* ------------------------------------------------------------------- Next
\* connect and cleanup, with at most n calls of connect
SessionSteps(n) ==
  \/ \E c \in 1..n, name \in Names, role \in Roles :
       Connect(c, name, role)
  \/ \E c \in 1..MaxConnects : SrvCreateUser(c)
  \/ \E c \in 1..MaxConnects : ConnectCreated(c)
  \/ \E c \in 1..MaxConnects : SrvListUsers(c)
  \/ \E c \in 1..MaxConnects : ConnectGotUsers(c)
  \/ \E c \in 1..MaxConnects : SrvListMessages(c)
  \/ \E c \in 1..MaxConnects : ConnectGotMessages(c)
  \/ Cleanup

\* the whole system
Next ==
  \/ SessionSteps(MaxConnects)
  \/ \E id \in UserIds : SrvDelete(id)
  \/ \E s \in 1..MaxSends, to \in UserIds, text \in Texts :
       SendMessage(s, to, text)
  \/ \E s \in 1..MaxSends : SrvInsertMessage(s)
  \/ \E s \in 1..MaxSends : SendAnswered(s)
  \/ \E w \in 1..MaxWrites, l \in Locations : UpdateLocation(w, l)
  \/ \E w \in 1..MaxWrites, b \in BOOLEAN : ToggleOnline(w, b)
  \/ \E w \in 1..MaxWrites, b \in BOOLEAN : TogglePremium(w, b)
  \/ \E w \in 1..MaxWrites : GeolocationEffect(w)
  \/ \E w \in 1..MaxWrites : WatchError(w)
  \/ \E w \in 1..MaxWrites : SrvUpdate(w)
  \/ \E w \in 1..MaxWrites : SrvUpdateFails(w)
  \/ \E h \in 1..MaxConnects : DeliverUserInsert(h)
  \/ \E h \in 1..MaxConnects : DeliverUserUpdate(h)
  \/ \E h \in 1..MaxConnects : DeliverUserDelete(h)
  \/ \E h \in 1..MaxConnects : DeliverMessageInsert(h)
  \/ \E name \in PeerNames, role \in Roles : PeerJoins(name, role)
  \/ \E id \in UserIds, p \in Patches : PeerUpdates(id, p)
  \/ \E id \in UserIds : PeerLeaves(id)
  \/ \E from \in UserIds, to \in UserIds, text \in Texts :
       PeerSends(from, to, text)

Spec == Init /\ [][Next]_vars

\* The state space of Spec is too large to enumerate.  The roster, the
\* message log and the fields of self are kept by disjoint parts of the
\* store, so each is checked under the part of Next that reads or writes
\* it; every behaviour of a part is a behaviour of Spec.

\* sessions and the roster: connect, cleanup, the entity rows of other
\* clients and the entity notifications
NextSession ==
  \/ SessionSteps(MaxConnects)
  \/ \E id \in UserIds : SrvDelete(id)
  \/ \E h \in 1..MaxConnects : DeliverUserInsert(h)
  \/ \E h \in 1..MaxConnects : DeliverUserDelete(h)
  \/ \E name \in PeerNames, role \in Roles : PeerJoins(name, role)
  \/ \E id \in UserIds : PeerLeaves(id)

SpecSession == Init /\ [][NextSession]_vars

\* sessions and the message log: connect, cleanup, sendMessage, the
\* messages of other clients and the message notifications
NextMessages ==
  \/ SessionSteps(MaxConnects)
  \/ \E s \in 1..MaxSends, to \in peerIds, text \in Texts :
       SendMessage(s, to, text)
  \/ \E s \in 1..MaxSends : SrvInsertMessage(s)
  \/ \E s \in 1..MaxSends : SendAnswered(s)
  \/ \E h \in 1..MaxConnects : DeliverUserInsert(h)
  \/ \E h \in 1..MaxConnects : DeliverMessageInsert(h)
  \/ \E from \in UserIds, to \in UserIds, text \in Texts :
       PeerSends(from, to, text)

SpecMessages == Init /\ [][NextMessages]_vars

\* one session and the fields of self: connect, cleanup, the optimistic
\* mutations, their upstream updates and the update notifications
NextSelf ==
  \/ SessionSteps(MaxSelfConnects)
  \/ \E w \in 1..MaxWrites, l \in Locations : UpdateLocation(w, l)
  \/ \E w \in 1..MaxWrites, b \in BOOLEAN : ToggleOnline(w, b)
  \/ \E w \in 1..MaxWrites, b \in BOOLEAN : TogglePremium(w, b)
  \/ \E w \in 1..MaxWrites : SrvUpdate(w)
  \/ \E w \in 1..MaxWrites : SrvUpdateFails(w)
  \/ \E h \in 1..MaxConnects : DeliverUserUpdate(h)

SpecSelf == Init /\ [][NextSelf]_vars

\* one session and the four operations the components call on it, up to
\* their awaits: connect, cleanup, the optimistic mutations with update
\* requests that end without a commit, sendMessage and its acknowledgment
NextCalls ==
  \/ SessionSteps(MaxSelfConnects)
  \/ \E w \in 1..MaxWrites, l \in Locations : UpdateLocation(w, l)
  \/ \E w \in 1..MaxWrites, b \in BOOLEAN : ToggleOnline(w, b)
  \/ \E w \in 1..MaxWrites, b \in BOOLEAN : TogglePremium(w, b)
  \/ \E w \in 1..MaxWrites : SrvUpdateFails(w)
  \/ \E s \in 1..MaxSends, to \in peerIds, text \in Texts :
       SendMessage(s, to, text)
  \/ \E s \in 1..MaxSends : SrvInsertMessage(s)
  \/ \E s \in 1..MaxSends : SendAnswered(s)

SpecCalls == Init /\ [][NextCalls]_vars

\* one session of an App whose geolocation gives no position: connect,
\* cleanup, the geolocation effect, the watch's error callback, the update
\* requests and the update notifications
InitFallback ==
  /\ InitStore
  /\ mapVisible = Null
  /\ listVisible = Null
  /\ geo \in {IdleGeo(mode) : mode \in {"unsupported", "failing", "working"}}
  /\ nav = IdleNav
  /\ navCalls = [k \in 1..MaxNavigations |-> IdleNavCall]
  /\ input = Null
  /\ output = Null

NextFallback ==
  \/ SessionSteps(MaxSelfConnects)
  \/ \E w \in 1..MaxWrites : GeolocationEffect(w)
  \/ \E w \in 1..MaxWrites : WatchError(w)
  \/ \E w \in 1..MaxWrites : SrvUpdate(w)
  \/ \E w \in 1..MaxWrites : SrvUpdateFails(w)
  \/ \E h \in 1..MaxConnects : DeliverUserUpdate(h)

SpecFallback == InitFallback /\ [][NextFallback]_vars

\* React runs the effect after every render, the browser calls the error
\* callback of a watch that fails, the backend answers every request and
\* the feed delivers every notification
FairFallback ==
  /\ SpecFallback
  /\ WF_vars(\E w \in 1..MaxWrites : GeolocationEffect(w))
  /\ WF_vars(\E w \in 1..MaxWrites : WatchError(w))
  /\ WF_vars(\E w \in 1..MaxWrites : SrvUpdate(w) \/ SrvUpdateFails(w))
  /\ WF_vars(\E h \in 1..MaxConnects : DeliverUserUpdate(h))

\* one session and the roster under the mutations of other clients: connect,
\* cleanup, self's online toggle, the rows and messages of other clients and
\* all four notification handlers
NextRoster ==
  \/ SessionSteps(MaxSelfConnects)
  \/ \E w \in 1..MaxWrites, b \in BOOLEAN : ToggleOnline(w, b)
  \/ \E w \in 1..MaxWrites : SrvUpdate(w)
  \/ \E h \in 1..MaxConnects : DeliverUserInsert(h)
  \/ \E h \in 1..MaxConnects : DeliverUserUpdate(h)
  \/ \E h \in 1..MaxConnects : DeliverUserDelete(h)
  \/ \E h \in 1..MaxConnects : DeliverMessageInsert(h)
  \/ \E name \in PeerNames, role \in Roles : PeerJoins(name, role)
  \/ \E id \in UserIds, b \in BOOLEAN : PeerUpdates(id, OnlinePatch(b))
  \/ \E id \in UserIds : PeerLeaves(id)
  \/ \E from \in UserIds, to \in UserIds, text \in Texts :
       PeerSends(from, to, text)

SpecRoster == Init /\ [][NextRoster]_vars

\* the two components that show the counterpart entities, rendering a
\* connected session's store
NextVisibility ==
  \/ RenderMapView
  \/ RenderUserList

SpecVisibility == InitVisibility /\ [][NextVisibility]_vars

\* the map of a connected session and its navigation panel
NextRoute ==
  \/ RenderMapView
  \/ \E k \in 1..MaxNavigations, u \in SeqRange(users) : StartNavigation(k, u)
  \/ \E k \in 1..MaxNavigations, from \in Positions, to \in Positions :
       \E r \in Responses(from, to) : OsrmResponds(k, r)
  \/ \E k \in 1..MaxNavigations : NavigationResumes(k)
  \/ EndNavigation
  \/ ToggleSteps

SpecRoute == InitRoute /\ [][NextRoute]_vars

\* the functions of the route panel and of the first server, each applied
\* to one input
NextFunctions ==
  \/ ApplyFormatDuration
  \/ ApplyFormatDistance
  \/ \E swapped \in BOOLEAN : ApplyGetDistance(swapped)
  \/ ApplyFetchRoute

SpecFunctions == InitFunctions /\ [][NextFunctions]_vars

\* ================================================================ claims
\* ------------------------------------------------------------ message log

\* C1: the message log never holds two entries with the same id, whether the
\* echo of a sent message arrives after or before its acknowledgment.
C1_NoDuplicateMessageIds ==
  \A i, j \in 1..Len(messages) : messages[i].id = messages[j].id => i = j

\* the acknowledgment of a sent message is about to be handled and the log
\* already holds the row: the echo came first
C1_EchoBeforeAck ==
  \E s \in 1..MaxSends :
    /\ sends[s].pc = "answered"
    /\ sends[s].data # Null
    /\ HasMessage(messages, Val(sends[s].data).id)
    /\ currentUser # Null
    /\ Val(currentUser).id = sends[s].from

\* C2: in every reachable state the message log is sorted by creation
\* timestamp ascending, whatever the arrival order of notifications and
\* acknowledgments.
C2_LogAscending ==
  \A i, j \in 1..Len(messages) :
    i < j => messages[i].timestamp < messages[j].timestamp

\* C10: sendMessage adds an entry only when the acknowledgment arrives, and
\* then the entry carries the id, sender, recipient and timestamp of the
\* acknowledged row of the backend; a rejected creation leaves the log as it
\* is and issues no further request.
C10_AcknowledgedOnly ==
  [][\A s \in 1..MaxSends :
       /\ (sends[s].pc # "answered" /\ sends'[s] # sends[s])
            => messages' = messages
       /\ (sends[s].pc = "answered" /\ sends'[s].pc = "idle")
            => IF sends[s].error # Null \/ sends[s].data = Null
               THEN /\ messages' = messages
                    /\ \A r \in 1..MaxSends :
                         sends'[r].pc = "inserting" => sends[r].pc = "inserting"
               ELSE LET row == Val(sends[s].data) IN
                    /\ row \in SeqRange(srvMessages)
                    /\ HasMessage(messages', row.id)
                    /\ \/ messages' = messages
                       \/ /\ Len(messages') = Len(messages) + 1
                          /\ SubSeq(messages', 1, Len(messages)) = messages
                          /\ LET m == messages'[Len(messages')] IN
                             /\ m.id = row.id
                             /\ m.from_user = row.from_user
                             /\ m.from = row.from_user
                             /\ m.to_user = row.to_user
                             /\ m.to = row.to_user
                             /\ m.created_at = row.created_at
                             /\ m.timestamp = DateGetTime(row.created_at)
  ]_vars

\* a rejected creation is about to be handled while the log has entries
C10_RejectedSend ==
  \E s \in 1..MaxSends :
    /\ sends[s].pc = "answered"
    /\ sends[s].error # Null
    /\ messages # << >>

\* C5: a connect whose entity creation and snapshot queries succeed stores
\* the created entity as self, the fetched snapshot as roster and the fetched
\* history (ascending, all involving self) as message log, opens exactly one
\* new subscription, stores its handle and returns null; each of these steps
\* leaves the rest of the store as it is.
C5_ConnectSucceeds ==
  [][\A c \in 1..MaxConnects :
       /\ (conn[c].pc = "created" /\ conn'[c].pc = "listUsers")
            => LET row == Val(conn[c].userData) IN
               /\ row \in srvUsers
               /\ row.name = conn[c].name /\ row.role = conn[c].role
               /\ currentUser' = Some(mapUser(row))
               /\ conn'[c].currentUser = currentUser'
               /\ UNCHANGED << users, messages, channel, subs >>
       /\ (conn[c].pc = "gotUsers" /\ conn'[c].pc = "listMessages"
             /\ conn[c].allUsers # Null)
            => /\ users' = MapUsers(Val(conn[c].allUsers))
               /\ UNCHANGED << currentUser, messages, channel, subs >>
       /\ (conn[c].pc = "gotMessages" /\ conn'[c].pc = "done")
            => /\ conn'[c].result = Null
               /\ channel' # Null
               /\ DOMAIN subs' = DOMAIN subs \cup {Val(channel')}
               /\ Val(channel') \notin DOMAIN subs
               /\ subs'[Val(channel')] = << >>
               /\ UNCHANGED << currentUser, users >>
               /\ conn[c].existingMessages # Null
                    => /\ messages' = MapMessages(Val(conn[c].existingMessages))
                       /\ \A i \in 1..Len(messages') :
                            \/ messages'[i].from = Val(conn[c].currentUser).id
                            \/ messages'[i].to = Val(conn[c].currentUser).id
                       /\ \A i, j \in 1..Len(messages') :
                            i < j => messages'[i].timestamp < messages'[j].timestamp
  ]_vars

\* a connect has returned null and the store is Connected: self, a roster and
\* a log from the snapshots, and the handle of an open subscription
C5_Connected ==
  \E c \in 1..MaxConnects :
    /\ conn[c].pc = "done"
    /\ conn[c].result = Null
    /\ currentUser # Null
    /\ \E i \in 1..Len(users) : users[i] = Val(currentUser)
    /\ messages # << >>
    /\ channel # Null
    /\ DOMAIN subs = {Val(channel)}

\* --------------------------------------------------- sessions and roster

\* C3: no two roster entries share an id.
C3_RosterIdsUnique ==
  \A i, j \in 1..Len(users) : users[i].id = users[j].id => i = j

IsErrorString(result) == result # Null /\ Val(result) # ""

NoRequestInFlight ==
  /\ \A c \in 1..MaxConnects : conn[c].pc \in {"idle", "done"}
  /\ \A s \in 1..MaxSends : sends[s].pc = "idle"
  /\ \A w \in 1..MaxWrites : writes[w] = Null
  /\ deletes = {}

Disconnected ==
  /\ currentUser = Null
  /\ users = << >>
  /\ messages = << >>
  /\ channel = Null

\* C4: a connect that fails (backend unconfigured, or creation rejected)
\* returns a non-null error string and changes nothing in the store and opens
\* no subscription; when the backend is unconfigured the client stays
\* Disconnected and never issues a request.
C4_FailedConnect ==
  /\ [](~supabaseConfigured =>
          /\ Disconnected
          /\ subs = << >>
          /\ NoRequestInFlight
          /\ \A c \in 1..MaxConnects :
               conn[c].pc = "done" => IsErrorString(conn[c].result))
  /\ [][\A c \in 1..MaxConnects :
          (conn[c].pc \in {"idle", "created"} /\ conn'[c].pc = "done")
            => /\ IsErrorString(conn'[c].result)
               /\ UNCHANGED << store, subs, sends, writes, deletes >>
               /\ \A d \in 1..MaxConnects \ {c} : conn'[d] = conn[d]
               /\ Disconnected => Disconnected'
     ]_vars

\* the creation of a connect was rejected and the client is Disconnected
C4_Rejected ==
  \E c \in 1..MaxConnects :
    /\ supabaseConfigured
    /\ conn[c].pc = "done"
    /\ IsErrorString(conn[c].result)
    /\ Disconnected
    /\ subs = << >>

\* C6: a teardown from the Connected state releases the subscription handle,
\* issues a delete request for self's row and leaves self null, the roster
\* and the log empty and the handle null; the outcome of the delete request
\* changes nothing in the store.
C6_Teardown ==
  [][/\ ( /\ currentUser # Null
          /\ channel # Null
          /\ \/ currentUser' = Null
             \/ channel' = Null
             \/ Val(channel) \notin DOMAIN subs'
             \/ Val(currentUser).id \in deletes' )
       => /\ Val(channel) \notin DOMAIN subs'
          /\ deletes' = deletes \cup {Val(currentUser).id}
          /\ Val(currentUser).id \notin deletes
          /\ Disconnected'
     /\ (deletes' # deletes /\ deletes' \subseteq deletes)
       => UNCHANGED store
  ]_vars

\* after a teardown of a Connected client: the delete request is in flight,
\* no subscription is open and the store is empty
C6_TornDown ==
  /\ Disconnected
  /\ subs = << >>
  /\ deletes # {}
  /\ \E c \in 1..MaxConnects : conn[c].pc = "done" /\ conn[c].result = Null

\* C7: at most one opened subscription is un-released at any time, and every
\* open subscription is the one the store holds for release.
C7_OneSubscription ==
  /\ Cardinality(DOMAIN subs) <= 1
  /\ \A h \in DOMAIN subs : channel = Some(h)

\* --------------------------------------------------------- fields of self

\* C8: updateLocation, toggleOnline and togglePremium change the targeted
\* fields of the local self in the step that issues the upstream request;
\* when the request ends, accepted or failed, the store does not change.
C8_Optimistic ==
  [][\A w \in 1..MaxWrites :
       /\ (writes[w] = Null /\ writes'[w] # Null)
            => /\ currentUser # Null /\ currentUser' # Null
               /\ Val(writes'[w]).id = Val(currentUser).id
               /\ LET p == Val(writes'[w]).patch
                      cu == Val(currentUser') IN
                  /\ \A f \in DOMAIN p : cu[f] = p[f]
                  /\ "lat" \in DOMAIN p
                       => cu.location = Some([lat |-> Val(p.lat),
                                              lng |-> Val(p.lng)])
                  /\ "is_online" \in DOMAIN p => cu.isOnline = p.is_online
                  /\ "is_premium" \in DOMAIN p => cu.isPremium = p.is_premium
       /\ (writes[w] # Null /\ writes'[w] = Null)
            => UNCHANGED store
  ]_vars

\* an upstream request is in flight and the local self already has a value
\* the backend's row does not have
C8_LocalAhead ==
  \E w \in 1..MaxWrites :
    /\ writes[w] # Null
    /\ currentUser # Null
    /\ Val(writes[w]).id = Val(currentUser).id
    /\ Val(currentUser).id \in RowIds
    /\ \E f \in DOMAIN Val(writes[w]).patch :
         /\ Val(currentUser)[f] = Val(writes[w]).patch[f]
         /\ RowOf(Val(currentUser).id)[f] # Val(writes[w]).patch[f]

Quiescent ==
  /\ currentUser # Null
  /\ channel # Null
  /\ Connecting = {}
  /\ \A w \in 1..MaxWrites : writes[w] = Null
  /\ \A h \in DOMAIN subs : subs[h] = << >>

SelfAgreesWithServer ==
  /\ Val(currentUser).id \in RowIds
  /\ Val(currentUser) = mapUser(RowOf(Val(currentUser).id))

\* C9 as stated: once no mutation is in flight and all notifications are
\* delivered, the local self equals the backend's row of self.
C9_QuiescentAgreement == Quiescent => SelfAgreesWithServer

LastUpdateOf(h, id) ==
  \A i \in 2..Len(subs[h]) :
    ~(subs[h][i].table = "users" /\ subs[h][i].row.id = id)

\* C9 as amended: an update notification for self's row replaces the local
\* self by the notified row, and the last such notification pending on a
\* subscription leaves the local self equal to the backend's row.
C9_NotificationCorrects ==
  [][\A h \in DOMAIN subs :
       ( /\ Pending(h, "users", "UPDATE")
         /\ h \in DOMAIN subs'
         /\ subs'[h] = Tail(subs[h])
         /\ currentUser # Null
         /\ Head(subs[h]).row.id = Val(currentUser).id )
       => /\ currentUser' = Some(mapUser(Head(subs[h]).row))
          /\ (LastUpdateOf(h, Val(currentUser).id)
                /\ Val(currentUser).id \in RowIds)
               => Val(currentUser') = mapUser(RowOf(Val(currentUser).id))
  ]_vars

\* the local self differs from the row of an update notification for self
\* that is about to be delivered
C9_DivergedBeforeNotification ==
  \E h \in DOMAIN subs :
    /\ Pending(h, "users", "UPDATE")
    /\ currentUser # Null
    /\ Head(subs[h]).row.id = Val(currentUser).id
    /\ Val(currentUser) # mapUser(Head(subs[h]).row)
    /\ LastUpdateOf(h, Val(currentUser).id)

\* ----------------------------------------------------- notification handlers

\* subscription h hands its oldest notification, of the given table and
\* type, to its handler in this step
Handled(h, table, type) ==
  /\ Pending(h, table, type)
  /\ h \in DOMAIN subs'
  /\ subs'[h] = Tail(subs[h])

InvolvesSelf(row) ==
  /\ currentUser # Null
  /\ row.from_user = Val(currentUser).id \/ row.to_user = Val(currentUser).id

\* C18: a notified message is appended to the log exactly when a self
\* exists, the message is from or to self and its id is not in the log yet;
\* otherwise the log stays as it is; the roster and self are never changed
\* by a message notification.
C18_MessageNotification ==
  [][\A h \in DOMAIN subs :
       Handled(h, "messages", "INSERT") =>
         LET row == Head(subs[h]).row IN
         /\ IF InvolvesSelf(row)
                /\ \A i \in 1..Len(messages) : messages[i].id # row.id
            THEN /\ Len(messages') = Len(messages) + 1
                 /\ SubSeq(messages', 1, Len(messages)) = messages
                 /\ messages'[Len(messages')].id = row.id
                 /\ messages'[Len(messages')].from_user = row.from_user
                 /\ messages'[Len(messages')].to_user = row.to_user
                 /\ messages'[Len(messages')].text = row.text
            ELSE messages' = messages
         /\ users' = users
         /\ currentUser' = currentUser
  ]_vars

\* a message between two other entities is about to be notified to a
\* connected self
C18_ForeignMessagePending ==
  \E h \in DOMAIN subs :
    /\ Pending(h, "messages", "INSERT")
    /\ currentUser # Null
    /\ ~InvolvesSelf(Head(subs[h]).row)

\* the entity carries the fields of the row
IsEntityOf(u, row) ==
  /\ u.id = row.id
  /\ u.name = row.name
  /\ u.role = row.role
  /\ u.lat = row.lat
  /\ u.lng = row.lng
  /\ u.is_online = row.is_online
  /\ u.isOnline = row.is_online
  /\ u.is_premium = row.is_premium
  /\ u.isPremium = row.is_premium

\* C19: an UPDATE notification replaces the roster entry with the row's id
\* by the row and leaves every other entry, the length and the order of the
\* roster as they are (an id not in the roster: no change); self is replaced
\* by the row exactly when the row's id is self's id.
C19_UpdateNotification ==
  [][\A h \in DOMAIN subs :
       Handled(h, "users", "UPDATE") =>
         LET row == Head(subs[h]).row IN
         /\ Len(users') = Len(users)
         /\ \A i \in 1..Len(users) :
              IF users[i].id = row.id
              THEN IsEntityOf(users'[i], row)
              ELSE users'[i] = users[i]
         /\ IF currentUser # Null /\ Val(currentUser).id = row.id
            THEN currentUser' # Null /\ IsEntityOf(Val(currentUser'), row)
            ELSE currentUser' = currentUser
  ]_vars

\* an update of another entity's row is about to be notified while the
\* roster holds that entity, changed, next to other entries
C19_PeerUpdatePending ==
  \E h \in DOMAIN subs :
    /\ Pending(h, "users", "UPDATE")
    /\ currentUser # Null
    /\ Head(subs[h]).row.id # Val(currentUser).id
    /\ Len(users) > 1
    /\ \E i \in 1..Len(users) :
         /\ users[i].id = Head(subs[h]).row.id
         /\ users[i].is_online # Head(subs[h]).row.is_online

\* C20: a DELETE notification removes every roster entry with the notified
\* id and keeps the others in their order (an id not in the roster: no
\* change); no entity notification changes the message log.
C20_DeleteNotification ==
  [][\A h \in DOMAIN subs :
       /\ Handled(h, "users", "DELETE") =>
            LET id == Head(subs[h]).row.id
                Stays(u) == u.id # id
            IN users' = SelectSeq(users, Stays)
       /\ \A type \in {"INSERT", "UPDATE", "DELETE"} :
            Handled(h, "users", type) => messages' = messages
  ]_vars

\* the deletion of an entity is about to be notified while the roster holds
\* the entity and the log holds a message from it
C20_DeleteOfCorrespondentPending ==
  \E h \in DOMAIN subs :
    /\ Pending(h, "users", "DELETE")
    /\ \E i \in 1..Len(users) : users[i].id = Head(subs[h]).row.id
    /\ \E i \in 1..Len(messages) :
         messages[i].from_user = Head(subs[h]).row.id

\* ------------------------------------------------------------- visibility

\* the entities the contract lets viewer v see in a roster: another id,
\* online, with a position, of the other role, within v's radius
Visible(v, list) ==
  LET Within(u) ==
        getDistance(Val(v.location).lat, Val(v.location).lng,
                    Val(u.location).lat, Val(u.location).lng)
          <= (IF v.isPremium THEN 5 ELSE 1) * MetersPerKm
      Seen(u) ==
        /\ u.id # v.id
        /\ u.isOnline
        /\ u.location # Null
        /\ u.role # v.role
        /\ Within(u)
  IN SelectSeq(list, Seen)

\* C11: for a viewer with a position, the map view and the user list show
\* exactly the roster entries, in roster order, that have another id, are
\* online, have a position, have the other role and are within the radius
\* (5 km for a premium viewer, 1 km otherwise).
C11_VisibleSet ==
  (currentUser # Null /\ Val(currentUser).location # Null) =>
    /\ mapVisible # Null =>
         Val(mapVisible).users = Visible(Val(currentUser), users)
    /\ listVisible # Null =>
         Val(listVisible).users = Visible(Val(currentUser), users)

\* both components have rendered a roster that holds a visible entity,
\* self, and an entity that is hidden
C11_SomeShownSomeHidden ==
  /\ mapVisible # Null
  /\ listVisible # Null
  /\ Len(Val(mapVisible).users) = 1
  /\ Len(Val(listVisible).users) = 1
  /\ Len(users) = 3
  /\ \E i \in 1..Len(users) :
       /\ users[i].id # Val(currentUser).id
       /\ users[i].location # Null
       /\ users[i] \notin SeqRange(Val(mapVisible).users)

\* C12: with position, role and roster fixed, whatever a non-premium viewer
\* sees a premium viewer sees too, in both components.
C12_PremiumMonotone ==
  (currentUser # Null /\ Val(currentUser).location # Null) =>
    LET standard == WithPremium(Val(currentUser), FALSE)
        premium == WithPremium(Val(currentUser), TRUE)
    IN /\ SeqRange(MapViewVisibleUsers(standard, users))
            \subseteq SeqRange(MapViewVisibleUsers(premium, users))
       /\ SeqRange(UserListVisibleUsers(standard, users))
            \subseteq SeqRange(UserListVisibleUsers(premium, users))

\* both components have rendered, for a premium viewer, a roster with an
\* entity that only a premium viewer sees
C12_PremiumSeesMore ==
  /\ currentUser # Null
  /\ Val(currentUser).location # Null
  /\ Val(currentUser).isPremium
  /\ mapVisible # Null
  /\ listVisible # Null
  /\ Val(mapVisible).users # << >>
  /\ MapViewVisibleUsers(WithPremium(Val(currentUser), FALSE), users) = << >>
  /\ MapViewVisibleUsers(WithPremium(Val(currentUser), TRUE), users) # << >>
  /\ UserListVisibleUsers(WithPremium(Val(currentUser), TRUE), users) # << >>

\* C13: an entity without a position is shown to no viewer, and a self
\* without a position is shown nothing, whatever the roster holds.
C13_PositionRequired ==
  /\ \A v \in SeqRange(users) \cup SeqRange(currentUser) :
       v.location # Null =>
         /\ \A u \in SeqRange(MapViewScreen(Some(v), users).users) :
              u.location # Null
         /\ \A u \in SeqRange(UserListScreen(Some(v), users).users) :
              u.location # Null
  /\ (currentUser = Null \/ Val(currentUser).location = Null) =>
       /\ mapVisible # Null => Val(mapVisible).users = << >>
       /\ listVisible # Null => Val(listVisible).users = << >>

\* both components have rendered for a self without a position while the
\* roster holds an online entity of the other role with a position
C13_UnplacedSelf ==
  /\ currentUser # Null
  /\ Val(currentUser).location = Null
  /\ mapVisible # Null
  /\ listVisible # Null
  /\ \E i \in 1..Len(users) :
       /\ users[i].isOnline
       /\ users[i].location # Null
       /\ users[i].role # Val(currentUser).role

\* ------------------------------------------------------------- directions

\* the route has every part the summary is derived from
WellFormedRoute(route) ==
  /\ route.geometry # Null
  /\ route.legs # Null
  /\ Val(route.legs) # << >>
  /\ Val(route.legs)[1].steps # Null
  /\ \A i \in 1..Len(Val(Val(route.legs)[1].steps)) :
       Val(Val(route.legs)[1].steps)[i].maneuver # Null
  /\ route.distance # Null
  /\ route.duration # Null

\* the provider answered with a route that can be summarised
RouteAvailable(response) ==
  /\ response.reached
  /\ response.ok
  /\ response.json # Null
  /\ Val(response.json).code = "Ok"
  /\ Val(response.json).routes # Null
  /\ Val(Val(response.json).routes) # << >>
  /\ WellFormedRoute(Val(Val(response.json).routes)[1])

\* C14: when the provider is unreachable or answers a non-success status, a
\* code other than Ok, no route or a malformed route, fetchRoute resolves to
\* null and throws nothing to startNavigation, which then shows the error
\* and starts no request of its own.
C14_RouteFailureIsValue ==
  [][\A k \in 1..MaxNavigations :
       (navCalls[k].pc = "fetched" /\ navCalls'[k].pc # "fetched") =>
         /\ navCalls'[k].pc = "done"
         /\ ~RouteAvailable(Val(navCalls[k].response)) =>
              /\ navCalls'[k].data = Some(Null)
              /\ nav'.routeError = Some(RouteErrorMessage)
              /\ nav'.routeData = nav.routeData
              /\ \A j \in 1..MaxNavigations :
                   navCalls'[j].pc = "fetching" => navCalls[j].pc = "fetching"
  ]_vars

\* ------------------------------------------------------------- formatting

\* n is an integer nearest to the fraction x
Nearest(n, x) ==
  /\ 2 * n * x.den <= 2 * x.num + x.den
  /\ 2 * x.num <= 2 * n * x.den + x.den

\* C16: formatDuration gives "< 1 min" below one minute, the rounded whole
\* minutes and " min" from 1 to below 60, and the whole hours, "h ", the
\* rounded remaining minutes and "m" from 60 on; the minutes shown are below
\* 60 in both forms.
C16_FormatDuration ==
  (output # Null /\ Val(input).fn = "formatDuration") =>
    LET x == Val(Val(input).arg)
        out == Val(output)
    IN IF x.num < x.den THEN out = << "<", " ", "1", " ", "m", "i", "n" >>
       ELSE IF x.num < 60 * x.den
       THEN \E m \in 0..59 :
              /\ Nearest(m, x)
              /\ out = DecimalString(m) \o << " ", "m", "i", "n" >>
       ELSE \E h \in 1..(MaxSeconds \div 3600 + 1), m \in 0..59 :
              /\ 60 * h * x.den <= x.num
              /\ x.num < 60 * (h + 1) * x.den
              /\ Nearest(m, [num |-> x.num - 60 * h * x.den, den |-> x.den])
              /\ out = DecimalString(h) \o << "h", " " >> \o DecimalString(m)
                         \o << "m" >>

\* C17: formatDistance gives the rounded whole metres and " m" below 1000 m
\* and the kilometres with one decimal and " km" from 1000 m on; the metres
\* shown are below 1000.
C17_FormatDistance ==
  (output # Null /\ Val(input).fn = "formatDistance") =>
    LET x == Val(Val(input).arg)
        out == Val(output)
    IN IF x.num < 1000 * x.den
       THEN \E n \in 0..999 :
              /\ Nearest(n, x)
              /\ out = DecimalString(n) \o << " ", "m" >>
       ELSE \E n \in 10..(MaxHalfMeters \div 200 + 1) :
              /\ Nearest(n, [num |-> x.num, den |-> 100 * x.den])
              /\ out = DecimalString(n \div 10) \o << "." >> \o DecimalString(n % 10)
                         \o << " ", "k", "m" >>

\* --------------------------------------------------------------- distance
\* d >= 0
NotNegative(d) == d # NaN /\ (d = Zero \/ ~Val(d).neg)

\* C15: the great-circle distance of two valid coordinates is not negative,
\* it is zero from a point to itself, and it is exactly the same number in
\* both directions.
C15_DistanceSymmetric ==
  (input # Null /\ Val(input).fn = "getDistance" /\ output # Null) =>
    LET arg == Val(input).arg
        out == Val(output)
    IN /\ \A r \in {out.forward, out.backward} \ {Null} :
            /\ NotNegative(Val(r))
            /\ arg[1] = arg[2] => Val(r) = Zero
       /\ (out.forward # Null /\ out.backward # Null) =>
            (Val(out.forward) # NaN /\ out.forward = out.backward)

\* ------------------------------------------------- the log within a session

\* C21: between a completed connect and the next cleanup the message log is
\* append-only: every step leaves the log unchanged or appends exactly one
\* entry at its end; no entry is modified, reordered or removed.  The store
\* holds a subscription handle exactly from the completion of a connect to
\* the next cleanup.
C21_AppendOnly ==
  [][ (channel # Null /\ channel' # Null)
        => \/ messages' = messages
           \/ /\ Len(messages') = Len(messages) + 1
              /\ SubSeq(messages', 1, Len(messages)) = messages
    ]_vars

\* C22: whenever a self exists, every message of the log has the current
\* self as its sender or its recipient.
C22_LogRelevant ==
  currentUser # Null =>
    \A i \in 1..Len(messages) :
      \/ messages[i].from = Val(currentUser).id
      \/ messages[i].to = Val(currentUser).id

\* C24: in every state without a self the roster is empty, the message log
\* is empty and the store holds no subscription handle, also when a cleanup
\* overtakes a connect that awaits its snapshots or a sendMessage that
\* awaits its acknowledgment.
C24_DisconnectedIsEmpty ==
  currentUser = Null =>
    /\ users = << >>
    /\ messages = << >>
    /\ channel = Null

\* ----------------------------------------------------- frame of the calls

\* C25: without a self, updateLocation, toggleOnline, togglePremium and
\* sendMessage change nothing in the store and issue no upstream request;
\* with a self, the step of an optimistic mutation changes only the targeted
\* fields of self (the position, the online flag or the premium flag, each
\* with its alias) and leaves the other fields of self, the roster, the log
\* and the channel as they are.
C25_CallFrame ==
  [][/\ currentUser = Null =>
          /\ \A w \in 1..MaxWrites : writes[w] = Null => writes'[w] = Null
          /\ \A s \in 1..MaxSends :
               sends'[s].pc = "inserting" => sends[s].pc = "inserting"
          /\ (\/ \E w \in 1..MaxWrites, l \in Locations : UpdateLocation(w, l)
              \/ \E w \in 1..MaxWrites, b \in BOOLEAN : ToggleOnline(w, b)
              \/ \E w \in 1..MaxWrites, b \in BOOLEAN : TogglePremium(w, b)
              \/ \E s \in 1..MaxSends, to \in UserIds, text \in Texts :
                   SendMessage(s, to, text))
               => UNCHANGED << store, calls >>
     /\ \A w \in 1..MaxWrites :
          (writes[w] = Null /\ writes'[w] # Null) =>
            /\ currentUser # Null /\ currentUser' # Null
            /\ UNCHANGED << users, messages, channel, sends >>
            /\ LET p == Val(writes'[w]).patch
                   targeted ==
                     IF "lat" \in DOMAIN p THEN {"lat", "lng", "location"}
                     ELSE IF "is_online" \in DOMAIN p
                     THEN {"is_online", "isOnline"}
                     ELSE {"is_premium", "isPremium"}
               IN \A f \in DOMAIN Val(currentUser) \ targeted :
                    Val(currentUser')[f] = Val(currentUser)[f]
  ]_vars

\* a togglePremium(true) has acted on a Connected client that is offline,
\* has a roster and a log
C25_PremiumAmidData ==
  /\ currentUser # Null
  /\ Val(currentUser).isPremium
  /\ ~Val(currentUser).isOnline
  /\ \E w \in 1..MaxWrites :
       writes[w] # Null /\ Val(writes[w]).patch = PremiumPatch(TRUE)
  /\ users # << >>
  /\ messages # << >>
  /\ channel # Null

\* the compatibility fields of an entity agree with its row fields
AliasesAgree(u) ==
  /\ u.isOnline = u.is_online
  /\ u.isPremium = u.is_premium
  /\ u.location = Null <=> (u.lat = Null \/ u.lng = Null)
  /\ u.location # Null =>
       /\ Val(u.location).lat = Val(u.lat)
       /\ Val(u.location).lng = Val(u.lng)

\* C26: in self and in every roster entry isOnline equals is_online,
\* isPremium equals is_premium, and location is null exactly when lat or lng
\* is null and otherwise holds lat and lng.
C26_AliasConsistency ==
  /\ currentUser # Null => AliasesAgree(Val(currentUser))
  /\ \A i \in 1..Len(users) : AliasesAgree(users[i])

\* self has moved, gone online and premium by optimistic mutations and the
\* feed has brought a position into self's roster entry
C26_MovedOnlinePremium ==
  /\ currentUser # Null
  /\ Val(currentUser).location # Null
  /\ Val(currentUser).isOnline
  /\ Val(currentUser).isPremium
  /\ \E i \in 1..Len(users) :
       /\ users[i].id = Val(currentUser).id
       /\ users[i].location # Null
       /\ users[i].location # Val(currentUser).location

\* ------------------------------------------------------------- directions

\* C23: the summary of a route has one step per provider step, in the
\* provider's order, each with the provider's metres and seconds; its
\* instruction is "Start" for a depart, "Arrive at destination" for an
\* arrive, and otherwise the maneuver type with its first character in upper
\* case and its hyphens as spaces, then a space and the modifier if there is
\* one, then " -- ", then the road name or "unnamed road" if it is empty.
C23_StepInstruction ==
  (input # Null /\ Val(input).fn = "fetchRoute" /\ output # Null) =>
    /\ Val(output) # Null
    /\ LET given == Val(Val(Val(Val(Val(input).arg.json).routes)[1].legs)[1].steps)
           made == Val(Val(output)).steps
       IN /\ Len(made) = Len(given)
          /\ \A i \in 1..Len(given) :
               LET type == Val(given[i].maneuver).type
                   modifier == Val(given[i].maneuver).modifier
                   text == made[i].instruction
                   n == Len(type)
                   m == IF modifier = Null THEN 0 ELSE Len(Val(modifier)) + 1
               IN /\ made[i].distance = given[i].distance
                  /\ made[i].duration = given[i].duration
                  /\ type = << "d", "e", "p", "a", "r", "t" >> =>
                       text = << "S", "t", "a", "r", "t" >>
                  /\ type = << "a", "r", "r", "i", "v", "e" >> =>
                       text = << "A", "r", "r", "i", "v", "e", " ", "a", "t",
                                 " ", "d", "e", "s", "t", "i", "n", "a", "t",
                                 "i", "o", "n" >>
                  /\ type \notin { << "d", "e", "p", "a", "r", "t" >>,
                                   << "a", "r", "r", "i", "v", "e" >> } =>
                       /\ text[1] = toUpperCase(type[1])
                       /\ \A j \in 2..n :
                            text[j] = IF type[j] = "-" THEN " " ELSE type[j]
                       /\ modifier # Null =>
                            /\ text[n + 1] = " "
                            /\ SubSeq(text, n + 2, n + m) = Val(modifier)
                       /\ SubSeq(text, n + m + 1, n + m + 4)
                            = << " ", "-", "-", " " >>
                       /\ SubSeq(text, n + m + 5, Len(text))
                            = IF given[i].name # << >> THEN given[i].name
                              ELSE << "u", "n", "n", "a", "m", "e", "d", " ",
                                      "r", "o", "a", "d" >>

\* a summary of two steps: a depart, then a maneuver whose type has two
\* hyphens, with a modifier, on a road without a name
C23_HyphenatedManeuver ==
  /\ input # Null
  /\ Val(input).fn = "fetchRoute"
  /\ output # Null
  /\ Val(output) # Null
  /\ Len(Val(Val(output)).steps) = 2
  /\ Val(Val(output)).steps[1].instruction = << "S", "t", "a", "r", "t" >>
  /\ Val(Val(output)).steps[2].instruction
       = << "E", "n", "d", " ", "o", "f", " ", "r", "o", "a", "d", " ", "l",
            "e", "f", "t", " ", "-", "-", " ", "u", "n", "n", "a", "m", "e",
            "d", " ", "r", "o", "a", "d" >>
  /\ Val(Val(output)).steps[2].distance = 150
  /\ Val(Val(output)).steps[2].duration = 20

\* ------------------------------------------------------------- navigation

\* C27: with no destination (before the first startNavigation, and from an
\* endNavigation to the next startNavigation) the navigation state is
\* cleared: no route data, no route error, not loading.  A response to a
\* request that was started before the endNavigation changes none of them.
C27_EndIsFinal ==
  nav.routeTo = Null =>
    /\ nav.routeData = Null
    /\ nav.routeError = Null
    /\ ~nav.routeLoading

\* C28: while a destination is set, the most recent startNavigation is the
\* one that set it.  Route data and route error are never both set, the
\* loading flag is true exactly while the most recent request is
\* unresolved, and once every request has resolved the route data is the
\* result of the most recent one, whatever the order of the responses.
C28_LatestRequestWins ==
  nav.routeTo # Null =>
    LET started == {k \in 1..MaxNavigations : navCalls[k].pc # "idle"}
        last == CHOOSE k \in started : \A j \in started : j <= k
        Unresolved(k) == navCalls[k].pc \in {"fetching", "fetched"}
    IN /\ ~(nav.routeData # Null /\ nav.routeError # Null)
       /\ nav.routeLoading <=> Unresolved(last)
       /\ (\A k \in started : ~Unresolved(k)) =>
            /\ navCalls[last].pc = "done"
            /\ nav.routeData = Val(navCalls[last].data)

\* ------------------------------------------------------ location fallback

\* C29: when geolocation is absent or its watcher reports an error, the
\* client comes to rest: from some point on the geolocation effect has run
\* for the self the store holds and no update request is in flight, so only
\* finitely many updateLocation calls and upstream writes are made.
C29_FallbackQuiesces ==
  geo.mode \in {"unsupported", "failing"} =>
    <>[](~geo.stale /\ \A w \in 1..MaxWrites : writes[w] = Null)

====
